---- MODULE Spec2Model ----
(***************************************************************************)
(* SMS webhook ingestion of bank-deposits: the POST /api/webhook/sms       *)
(* handler (route.ts), the SMS parser and the payload validator            *)
(* (sms-parser), and the two storage tables the handler writes.            *)
(*                                                                         *)
(* Texts that the code inspects character by character (the slots of the   *)
(* SMS template) are sequences of one-character strings; texts that the    *)
(* code only compares or concatenates are TLA+ strings.                    *)
(***************************************************************************)
EXTENDS Integers, Sequences, FiniteSets, TLC

\* Number of POST requests that may be in flight or answered in one run.
MaxReq == 2
\* Number of storage calls that may fail (returned error or thrown) in one run.
MaxFaults == 2
\* Longest amount text and longest sender text the parser is given, among
\* all texts over a few characters.
MaxAmountLen == 3
MaxSenderLen == 2

Req == 1..MaxReq

\* An absent value (undefined / null in the code): None where a record is
\* expected, Absent where a string is, NoId where a row id is.
None == [none |-> TRUE]
Absent == "<absent>"
NoId == 0

(***************************************************************************)
(* SMS texts.  A text is the Bancolombia template with its five slots      *)
(* filled (lit = TRUE), or some other text (lit = FALSE).                  *)
(***************************************************************************)
Digit == {"0", "1", "2", "3", "4", "5", "6", "7", "8", "9"}
Upper == {"A", "B", "M", "Z"}
Space == {" ", "\t"}

DigitVal(c) ==
    CASE c = "0" -> 0 [] c = "1" -> 1 [] c = "2" -> 2 [] c = "3" -> 3
      [] c = "4" -> 4 [] c = "5" -> 5 [] c = "6" -> 6 [] c = "7" -> 7
      [] c = "8" -> 8 [] c = "9" -> 9

Text(lit, amount, sender, account, date, time) ==
    [lit |-> lit, amount |-> amount, sender |-> sender, account |-> account,
     date |-> date, time |-> time]

\* Number of characters of the template outside its five slots.
TemplateLiteralLen == 78

\* message.length
TextLength(t) ==
    (IF t.lit THEN TemplateLiteralLen ELSE 0)
      + Len(t.amount) + Len(t.sender) + Len(t.account) + Len(t.date) + Len(t.time)

AllIn(s, S) == \A i \in 1..Len(s) : s[i] \in S

\* \d{2}\/\d{2}\/\d{4}
IsDatePattern(s) ==
    /\ Len(s) = 10
    /\ s[3] = "/" /\ s[6] = "/"
    /\ \A i \in {1, 2, 4, 5, 7, 8, 9, 10} : s[i] \in Digit

\* \d{2}:\d{2}
IsTimePattern(s) ==
    /\ Len(s) = 5
    /\ s[3] = ":"
    /\ \A i \in {1, 2, 4, 5} : s[i] \in Digit

\* Mutation: the account group of the pattern is \d+, any number of digits.
MatchesPattern_AccountAnyLength(t) ==
    /\ t.lit
    /\ Len(t.amount) >= 1 /\ AllIn(t.amount, Digit \cup {","})
    /\ Len(t.sender) >= 1 /\ AllIn(t.sender, Upper \cup Space)
    /\ Len(t.account) >= 1 /\ AllIn(t.account, Digit)
    /\ IsDatePattern(t.date)
    /\ IsTimePattern(t.time)

\* message.match(BANCOLOMBIA_PATTERN): the literal parts and the character
\* class and length of each of the five groups.
MatchesPattern(t) ==
    /\ t.lit
    /\ Len(t.amount) >= 1 /\ AllIn(t.amount, Digit \cup {","})
    /\ Len(t.sender) >= 1 /\ AllIn(t.sender, Upper \cup Space)
    /\ Len(t.account) = 4 /\ AllIn(t.account, Digit)
    /\ IsDatePattern(t.date)
    /\ IsTimePattern(t.time)

\* Mutation: str.replace(',', ''), only the first comma is removed.
RemoveCommas_FirstOnly(s) ==
    IF \E i \in 1..Len(s) : s[i] = ","
    THEN LET i == CHOOSE k \in 1..Len(s) : s[k] = "," /\ \A j \in 1..(k - 1) : s[j] # ","
         IN SubSeq(s, 1, i - 1) \o SubSeq(s, i + 1, Len(s))
    ELSE s

\* str.replace(/,/g, '')
RemoveCommas(s) == SelectSeq(s, LAMBDA c : c # ",")

\* A JavaScript number: an integer, or NaN.
Num(v) == [nan |-> FALSE, v |-> v]
NaN == [nan |-> TRUE, v |-> 0]
isNaN(n) == n.nan
\* Comparisons of a number with an integer; every comparison with NaN is false.
NumLT(n, k) == ~n.nan /\ n.v < k
NumGT(n, k) == ~n.nan /\ n.v > k
NumLE(n, k) == ~n.nan /\ n.v <= k

RECURSIVE DigitsValue(_)
DigitsValue(s) ==
    IF s = <<>> THEN 0
    ELSE 10 * DigitsValue(SubSeq(s, 1, Len(s) - 1)) + DigitVal(s[Len(s)])

RECURSIVE DigitPrefixLen(_)
DigitPrefixLen(s) ==
    IF s = <<>> \/ Head(s) \notin Digit THEN 0 ELSE 1 + DigitPrefixLen(Tail(s))

\* parseInt(s, 10) on a text without sign or leading blanks: the value of the
\* longest prefix of digits, NaN when there is none.
ParseInt(s) ==
    IF DigitPrefixLen(s) = 0 THEN NaN
    ELSE Num(DigitsValue(SubSeq(s, 1, DigitPrefixLen(s))))

RECURSIVE TrimLeft(_)
TrimLeft(s) == IF s # <<>> /\ Head(s) \in Space THEN TrimLeft(Tail(s)) ELSE s

RECURSIVE TrimRight(_)
TrimRight(s) ==
    IF s # <<>> /\ s[Len(s)] \in Space THEN TrimRight(SubSeq(s, 1, Len(s) - 1)) ELSE s

\* Mutation: only leading white space is removed.
Trim_LeftOnly(s) == TrimLeft(s)

\* String.prototype.trim
Trim(s) == TrimRight(TrimLeft(s))

\* Mutation: every fourth year is a leap year.
IsLeapYear_EveryFourth(y) == y % 4 = 0

IsLeapYear(y) == (y % 4 = 0 /\ y % 100 # 0) \/ y % 400 = 0

DaysInMonth(y, m) ==
    CASE m \in {1, 3, 5, 7, 8, 10, 12} -> 31
      [] m \in {4, 6, 9, 11} -> 30
      [] m = 2 -> IF IsLeapYear(y) THEN 29 ELSE 28

\* new Date(year, monthIndex, day) for year >= 1900, monthIndex in 0..11 and
\* day in 1..31: a day past the end of the month rolls into the next month
\* (and December into January of the next year).  The result is the local
\* calendar date [y, m (1-based), d].
NewDate(year, monthIndex, day) ==
    LET m   == monthIndex + 1
        dim == DaysInMonth(year, m)
    IN IF day <= dim THEN [y |-> year, m |-> m, d |-> day]
       ELSE IF m = 12 THEN [y |-> year + 1, m |-> 1, d |-> day - dim]
       ELSE [y |-> year, m |-> m + 1, d |-> day - dim]

\* new Date(): the current instant, which the model does not track.
Now == [now |-> TRUE]

\* The parser's failure result: no extracted field, only the reason.
ParseFailure(reason) ==
    [amount |-> 0, senderName |-> <<>>, account |-> <<>>, date |-> Now,
     time |-> <<>>, success |-> FALSE, errorReason |-> reason]

PatternMismatchReason == "SMS message does not match Bancolombia transfer pattern"
InvalidAmountReason   == "Invalid amount format in SMS"
EmptySenderReason     == "Empty or invalid sender name"
InvalidAccountReason  == "Invalid account number format"
InvalidDateReason     == "Invalid date format in SMS"
InvalidTimeFormatReason == "Invalid time format in SMS"
InvalidTimeReason     == "Invalid time values in SMS"

\* Mutation: the date is validated before the amount.
parseBancolombiaSMS_DateFirst(message) ==
    IF ~MatchesPattern(message) THEN ParseFailure(PatternMismatchReason)
    ELSE
    LET amount  == ParseInt(RemoveCommas(message.amount))
        cleanedSenderName == Trim(message.sender)
        account == message.account
        day     == ParseInt(SubSeq(message.date, 1, 2))
        month   == ParseInt(SubSeq(message.date, 4, 5))
        year    == ParseInt(SubSeq(message.date, 7, 10))
        parsedDate == NewDate(year.v, month.v - 1, day.v)
        timeStr == message.time
        hours   == ParseInt(SubSeq(timeStr, 1, 2))
        minutes == ParseInt(SubSeq(timeStr, 4, 5))
    IN  IF NumLT(day, 1) \/ NumGT(day, 31) \/ NumLT(month, 1) \/ NumGT(month, 12)
                  \/ NumLT(year, 1900)
             THEN ParseFailure(InvalidDateReason)
        ELSE IF parsedDate.d # day.v \/ parsedDate.m - 1 # month.v - 1
                  \/ parsedDate.y # year.v
             THEN ParseFailure(InvalidDateReason)
        ELSE IF isNaN(amount) \/ NumLE(amount, 0) THEN ParseFailure(InvalidAmountReason)
        ELSE IF cleanedSenderName = <<>> THEN ParseFailure(EmptySenderReason)
        ELSE IF ~(Len(account) = 4 /\ AllIn(account, Digit))
             THEN ParseFailure(InvalidAccountReason)
        ELSE IF ~IsTimePattern(timeStr) THEN ParseFailure(InvalidTimeFormatReason)
        ELSE IF NumLT(hours, 0) \/ NumGT(hours, 23) \/ NumLT(minutes, 0) \/ NumGT(minutes, 59)
             THEN ParseFailure(InvalidTimeReason)
        ELSE [amount |-> amount.v, senderName |-> cleanedSenderName,
              account |-> <<"*", "*">> \o account, date |-> parsedDate,
              time |-> timeStr, success |-> TRUE, errorReason |-> Absent]

\* Mutation: the account is returned as matched, without the "**" mask.
parseBancolombiaSMS_AccountAsMatched(message) ==
    IF ~MatchesPattern(message) THEN ParseFailure(PatternMismatchReason)
    ELSE
    LET amount  == ParseInt(RemoveCommas(message.amount))
        cleanedSenderName == Trim(message.sender)
        account == message.account
        day     == ParseInt(SubSeq(message.date, 1, 2))
        month   == ParseInt(SubSeq(message.date, 4, 5))
        year    == ParseInt(SubSeq(message.date, 7, 10))
        parsedDate == NewDate(year.v, month.v - 1, day.v)
        timeStr == message.time
        hours   == ParseInt(SubSeq(timeStr, 1, 2))
        minutes == ParseInt(SubSeq(timeStr, 4, 5))
    IN  IF isNaN(amount) \/ NumLE(amount, 0) THEN ParseFailure(InvalidAmountReason)
        ELSE IF cleanedSenderName = <<>> THEN ParseFailure(EmptySenderReason)
        ELSE IF ~(Len(account) = 4 /\ AllIn(account, Digit))
             THEN ParseFailure(InvalidAccountReason)
        ELSE IF NumLT(day, 1) \/ NumGT(day, 31) \/ NumLT(month, 1) \/ NumGT(month, 12)
                  \/ NumLT(year, 1900)
             THEN ParseFailure(InvalidDateReason)
        ELSE IF parsedDate.d # day.v \/ parsedDate.m - 1 # month.v - 1
                  \/ parsedDate.y # year.v
             THEN ParseFailure(InvalidDateReason)
        ELSE IF ~IsTimePattern(timeStr) THEN ParseFailure(InvalidTimeFormatReason)
        ELSE IF NumLT(hours, 0) \/ NumGT(hours, 23) \/ NumLT(minutes, 0) \/ NumGT(minutes, 59)
             THEN ParseFailure(InvalidTimeReason)
        ELSE [amount |-> amount.v, senderName |-> cleanedSenderName,
              account |-> account, date |-> parsedDate,
              time |-> timeStr, success |-> TRUE, errorReason |-> Absent]

parseBancolombiaSMS(message) ==
    IF ~MatchesPattern(message) THEN ParseFailure(PatternMismatchReason)
    ELSE
    LET amount  == ParseInt(RemoveCommas(message.amount))
        cleanedSenderName == Trim(message.sender)
        account == message.account
        day     == ParseInt(SubSeq(message.date, 1, 2))
        month   == ParseInt(SubSeq(message.date, 4, 5))
        year    == ParseInt(SubSeq(message.date, 7, 10))
        parsedDate == NewDate(year.v, month.v - 1, day.v)
        timeStr == message.time
        hours   == ParseInt(SubSeq(timeStr, 1, 2))
        minutes == ParseInt(SubSeq(timeStr, 4, 5))
    IN  IF isNaN(amount) \/ NumLE(amount, 0) THEN ParseFailure(InvalidAmountReason)
        ELSE IF cleanedSenderName = <<>> THEN ParseFailure(EmptySenderReason)
        ELSE IF ~(Len(account) = 4 /\ AllIn(account, Digit))
             THEN ParseFailure(InvalidAccountReason)
        ELSE IF NumLT(day, 1) \/ NumGT(day, 31) \/ NumLT(month, 1) \/ NumGT(month, 12)
                  \/ NumLT(year, 1900)
             THEN ParseFailure(InvalidDateReason)
        ELSE IF parsedDate.d # day.v \/ parsedDate.m - 1 # month.v - 1
                  \/ parsedDate.y # year.v
             THEN ParseFailure(InvalidDateReason)
        ELSE IF ~IsTimePattern(timeStr) THEN ParseFailure(InvalidTimeFormatReason)
        ELSE IF NumLT(hours, 0) \/ NumGT(hours, 23) \/ NumLT(minutes, 0) \/ NumGT(minutes, 59)
             THEN ParseFailure(InvalidTimeReason)
        ELSE [amount |-> amount.v, senderName |-> cleanedSenderName,
              account |-> <<"*", "*">> \o account, date |-> parsedDate,
              time |-> timeStr, success |-> TRUE, errorReason |-> Absent]

\* validateWebhookPayload and the JSON values it is given.  A string value
\* carries its text and its length.
JUndefined == [t |-> "undefined"]
JNull      == [t |-> "null"]
JNumber(n) == [t |-> "number", n |-> n]
JBoolean(b) == [t |-> "boolean", b |-> b]
JStr(s)    == [t |-> "string", s |-> s, len |-> Len(s)]
JText(m)   == [t |-> "string", s |-> m, len |-> TextLength(m)]
JObject(f) == [t |-> "object", f |-> f]

\* !payload
Falsy(v) ==
    \/ v.t \in {"undefined", "null"}
    \/ v.t = "string" /\ v.len = 0
    \/ v.t = "number" /\ v.n = 0
    \/ v.t = "boolean" /\ ~v.b

\* typeof payload
TypeOf(v) == IF v.t = "null" THEN "object" ELSE v.t

\* webhookData.key
Field(obj, key) == IF key \in DOMAIN obj.f THEN obj.f[key] ELSE JUndefined

\* Mutation: all four strings must be non-empty.
validateWebhookPayload_AllNonEmpty(payload) ==
    IF Falsy(payload) \/ TypeOf(payload) # "object" THEN FALSE
    ELSE /\ TypeOf(Field(payload, "message")) = "string"
         /\ TypeOf(Field(payload, "timestamp")) = "string"
         /\ TypeOf(Field(payload, "phone")) = "string"
         /\ TypeOf(Field(payload, "webhookId")) = "string"
         /\ Field(payload, "message").len > 0
         /\ Field(payload, "timestamp").len > 0
         /\ Field(payload, "phone").len > 0
         /\ Field(payload, "webhookId").len > 0

validateWebhookPayload(payload) ==
    IF Falsy(payload) \/ TypeOf(payload) # "object" THEN FALSE
    ELSE /\ TypeOf(Field(payload, "message")) = "string"
         /\ TypeOf(Field(payload, "timestamp")) = "string"
         /\ TypeOf(Field(payload, "phone")) = "string"
         /\ TypeOf(Field(payload, "webhookId")) = "string"
         /\ Field(payload, "message").len > 0
         /\ Field(payload, "webhookId").len > 0

(***************************************************************************)
(* Inputs of the POST handler.                                             *)
(***************************************************************************)
Chars(str) ==
    CASE str = "190,000" -> <<"1", "9", "0", ",", "0", "0", "0">>
      [] str = "0" -> <<"0">>
      [] str = "MA  B" -> <<"M", "A", " ", " ", "B">>
      [] str = "7251" -> <<"7", "2", "5", "1">>
      [] str = "04/09/2025" -> <<"0", "4", "/", "0", "9", "/", "2", "0", "2", "5">>
      [] str = "01/01/2025" -> <<"0", "1", "/", "0", "1", "/", "2", "0", "2", "5">>
      [] str = "08:06" -> <<"0", "8", ":", "0", "6">>

\* A transfer notification in the bank's template.
GoodSMS == Text(TRUE, Chars("190,000"), Chars("MA  B"), Chars("7251"),
                Chars("01/01/2025"), Chars("08:06"))
\* The template with an amount of zero.
ZeroAmountSMS == Text(TRUE, Chars("0"), Chars("MA  B"), Chars("7251"),
                      Chars("04/09/2025"), Chars("08:06"))
\* A text that is not the template.
OtherSMS == Text(FALSE, <<>>, Chars("MA  B"), <<>>, <<>>, <<>>)
EmptyText == Text(FALSE, <<>>, <<>>, <<>>, <<>>, <<>>)

Messages == {GoodSMS, ZeroAmountSMS, OtherSMS}
WebhookIds == {"w1", "w2"}

Payload(message, webhookId) ==
    JObject([message |-> JText(message), timestamp |-> JStr("2025-09-05T08:06:30Z"),
             phone |-> JStr(""), webhookId |-> JStr(webhookId)])

\* request.json() throws on a body that is not JSON.
BadJson == [t |-> "not json"]
\* An input the handler returned without reading.
Unread == [unread |-> TRUE]

Bodies ==
    {BadJson, JNull, Payload(GoodSMS, ""), JObject([message |-> JText(GoodSMS)])}
      \cup {Payload(m, w) : m \in Messages, w \in WebhookIds}

Secret == "s3"
\* Header values, as the sequence of their parts; headers.get gives null
\* (None) for a header that was not sent.
Header(parts) == [parts |-> parts]
AuthHeaders == {None, Header(<<"Basic ", "s3">>), Header(<<"Bearer ", "bad">>),
                Header(<<"Bearer ", "Bearer ", "s3">>), Header(<<"Bearer ", "s3">>)}
ContentTypes == {None, Header(<<"text/plain">>),
                 Header(<<"application/json", "; charset=utf-8">>)}

\* The process environment read at module load (route.ts lines 9-11).
GoodEnv == [SUPABASE_URL |-> "https://db", SUPABASE_SERVICE_ROLE_KEY |-> "key",
            WEBHOOK_SECRET |-> Secret]
Envs == {GoodEnv, [GoodEnv EXCEPT !.WEBHOOK_SECRET = Absent],
         [GoodEnv EXCEPT !.SUPABASE_URL = ""],
         [GoodEnv EXCEPT !.SUPABASE_SERVICE_ROLE_KEY = Absent]}

\* UTC offsets, in hours, of hosts the handler may run on.
HostUtcOffsets == {-5, 0, 1}

(***************************************************************************)
(* State.                                                                  *)
(***************************************************************************)
\* The concurrent callers of the gateway in the dashboard process.
Callers == {"a", "b"}

\* MemoryCache's Map with no entry.
EmptyMap == [k \in {} |-> None]

\* No entry of the Map.
NoPrior == [some |-> FALSE]

\* A caller that is making no call.
NoCall ==
    [pc |-> "idle", op |-> "", arg |-> None, key |-> None, ttl |-> 0, startedAt |-> 0,
     prior |-> NoPrior]

VARIABLES
    env,            \* the process environment (SUPABASE_URL, ..., WEBHOOK_SECRET)
    req,            \* req[r]: the POST request r, its position and its locals
    transactions,   \* the rows of public.transactions, in insertion order
    parse_errors,   \* the rows of public.parse_errors, in insertion order
    faults,         \* number of storage calls that have failed so far
    cache,          \* the dashboard process's MemoryCache: key -> entry
    clock,          \* Date.now() of the dashboard process
    call,           \* per caller: the gateway call it is making
    ret,            \* the outcome of the gateway call that ended last
    events,         \* realtime INSERT events not yet delivered to the callback
    subscribed,     \* the dashboard holds its realtime subscription
    tz,             \* hours the dashboard host's clock is ahead of UTC
    store           \* the dashboard store: its transactions list and its metrics

vars == <<env, req, transactions, parse_errors, faults, cache, clock, call, ret,
         events, subscribed, tz, store>>

\* The state of the dashboard process, which POST neither reads nor writes.
dashVars == <<cache, clock, call, ret, events, subscribed, tz, store>>

\* The dashboard store as created: dashboard.ts lines 257-260.
NewStore == [transactions |-> <<>>, metrics |-> [none |-> TRUE]]

\* A request before the handler runs.  ops and log record what the handler
\* did: the storage calls it made and the console lines it wrote.
NewRequest ==
    [pc |-> "idle", authHeader |-> Unread, contentType |-> Unread, body |-> Unread,
     pending |-> None, resp |-> None, log |-> <<>>, ops |-> <<>>]

\* The server process and an empty storage.
PostInit ==
    /\ env \in Envs
    /\ req = [r \in Req |-> NewRequest]
    /\ transactions = <<>>
    /\ parse_errors = <<>>
    /\ faults = 0

\* The dashboard process: nothing cached, no call made, not subscribed.
DashInit ==
    /\ cache = EmptyMap
    /\ clock = 0
    /\ call = [c \in Callers |-> NoCall]
    /\ ret = None
    /\ events = <<>>
    /\ subscribed = FALSE
    /\ store = NewStore

Init == PostInit /\ DashInit /\ tz = 0

\* NextResponse.json({status, error, transactionId, webhookId}, {status: code})
Response(code, status, error, transactionId, webhookId) ==
    [code |-> code, status |-> status, error |-> error,
     transactionId |-> transactionId, webhookId |-> webhookId]

\* A console line: console.error or console.log, with or without the
\* elapsed processing time in it.
LogEntry(level, elapsed) == [level |-> level, elapsed |-> elapsed]

\* return NextResponse.json(...): the handler ends and its locals are gone.
Respond(q, resp, entries) ==
    [q EXCEPT !.pc = "done", !.resp = resp, !.log = @ \o entries, !.pending = None]

\* Mutation: POST without its final catch (the exception leaves the handler
\* and no response is built).
CatchAll_Propagates(q) == [q EXCEPT !.pc = "done", !.pending = None]

\* The final catch of POST.
CatchAll(q) ==
    Respond(q, Response(500, "error", "Internal server error", NoId, Absent),
            <<LogEntry("error", TRUE)>>)

\* !value for an environment string
Missing(s) == s = Absent \/ s = ""

\* authHeader.startsWith(prefix)
StartsWith(h, prefix) == Len(h.parts) >= 1 /\ h.parts[1] = prefix

\* authHeader.replace(what, ''): the first occurrence is removed.
ReplaceFirst(parts, what) ==
    IF \E i \in 1..Len(parts) : parts[i] = what
    THEN LET i == CHOOSE k \in 1..Len(parts) :
                     /\ parts[k] = what
                     /\ \A j \in 1..(k - 1) : parts[j] # what
         IN SubSeq(parts, 1, i - 1) \o SubSeq(parts, i + 1, Len(parts))
    ELSE parts

\* contentType.includes(what)
Includes(h, what) == \E i \in 1..Len(h.parts) : h.parts[i] = what

\* webhookData.webhookId and webhookData.message of a validated request
WebhookIdOf(q) == q.body.f.webhookId.s
MessageOf(q) == q.body.f.message.s

\* Mutation: the webhook secret is not among the required settings.
ConfigMissing_SecretNotRequired ==
    \/ Missing(env.SUPABASE_URL)
    \/ Missing(env.SUPABASE_SERVICE_ROLE_KEY)

\* The environment check of lines 29-36.
ConfigMissing ==
    \/ Missing(env.SUPABASE_URL)
    \/ Missing(env.SUPABASE_SERVICE_ROLE_KEY)
    \/ Missing(env.WEBHOOK_SECRET)

Rejection(code, error) == Response(code, "error", error, NoId, Absent)

\* Mutation: the bearer token is not compared with the secret.
AuthRejection_TokenNotCompared(h) ==
    IF h = None \/ ~StartsWith(h, "Bearer ")
    THEN Rejection(401, "Missing or invalid authorization header")
    ELSE None

\* Bearer token authentication, lines 38-53: the rejection, or None.
AuthRejection(h) ==
    IF h = None \/ ~StartsWith(h, "Bearer ")
    THEN Rejection(401, "Missing or invalid authorization header")
    ELSE IF ReplaceFirst(h.parts, "Bearer ") # <<env.WEBHOOK_SECRET>>
    THEN Rejection(401, "Invalid webhook token")
    ELSE None

\* Content-Type validation, lines 55-62: the rejection, or None.
ContentTypeRejection(ct) ==
    IF ct = None \/ ~Includes(ct, "application/json")
    THEN Rejection(400, "Content-Type must be application/json")
    ELSE None

\* Mutation: a body that is not JSON is answered like an invalid payload.
BodyRejection_OneError(b) ==
    IF b = BadJson \/ ~validateWebhookPayload(b)
    THEN Rejection(400, "Invalid webhook payload format")
    ELSE None

\* Parsing and validation of the body, lines 64-80: the rejection, or None.
BodyRejection(b) ==
    IF b = BadJson THEN Rejection(400, "Invalid JSON payload")
    ELSE IF ~validateWebhookPayload(b)
    THEN Rejection(400, "Invalid webhook payload format")
    ELSE None

\* POST up to its first storage call: environment, bearer token, content
\* type, body.  A header or body the handler returns without reading stays
\* Unread.
PreStorage(q, h, ct, b) ==
    IF ConfigMissing
    THEN Respond(q, Rejection(500, "Server configuration error"),
                 <<LogEntry("error", FALSE)>>)
    ELSE IF AuthRejection(h) # None
    THEN Respond([q EXCEPT !.authHeader = h], AuthRejection(h), <<>>)
    ELSE IF ContentTypeRejection(ct) # None
    THEN Respond([q EXCEPT !.authHeader = h, !.contentType = ct],
                 ContentTypeRejection(ct), <<>>)
    ELSE IF BodyRejection(b) # None
    THEN Respond([q EXCEPT !.authHeader = h, !.contentType = ct, !.body = b],
                 BodyRejection(b), <<>>)
    ELSE [q EXCEPT !.authHeader = h, !.contentType = ct, !.body = b, !.pc = "lookup"]

(***************************************************************************)
(* Storage: the two tables and the results of the client's calls.          *)
(***************************************************************************)
\* A storage call the handler made: table, operation and how it ended.
Op(table, op, result) == [table |-> table, op |-> op, result |-> result]

StorageError(code, message) == [code |-> code, message |-> message]

\* How a storage call may end: served by the database ("ok"), or failed with
\* a returned error or with a thrown exception.
Outcomes == {"ok"} \cup (IF faults < MaxFaults THEN {"error", "throw"} ELSE {})

\* Mutation: the lookup without its filter on webhook_id.
SelectByWebhookId_AnyRow(rows, w) == rows

\* .from('transactions').select(...).eq('webhook_id', w)
SelectByWebhookId(rows, w) == SelectSeq(rows, LAMBDA t : t.webhook_id = w)

\* .single(): the one row, or the PGRST116 error when there is not exactly one.
Single(rows) ==
    IF Len(rows) = 1 THEN [data |-> rows[1], error |-> None]
    ELSE [data |-> None, error |-> StorageError("PGRST116", "no rows")]

\* Mutation: the webhook_id column without its UNIQUE constraint.
UniqueWebhookId_NoConstraint(rows, row) == TRUE

\* webhook_id VARCHAR(255) UNIQUE NOT NULL
UniqueWebhookId(rows, row) == \A i \in 1..Len(rows) : rows[i].webhook_id # row.webhook_id

\* id UUID PRIMARY KEY DEFAULT gen_random_uuid(): a fresh id for each row.
WithId(rows, row) == [id |-> Len(rows) + 1] @@ row

\* Mutation: INSERT ... ON CONFLICT (webhook_id) DO UPDATE, the row of the
\* same delivery is overwritten.
DbInsertTransaction_Upsert(rows, row) ==
    IF UniqueWebhookId(rows, row)
    THEN [rows |-> Append(rows, WithId(rows, row)),
          data |-> [id |-> Len(rows) + 1], error |-> None]
    ELSE [rows |-> [i \in 1..Len(rows) |->
                      IF rows[i].webhook_id = row.webhook_id
                      THEN [id |-> rows[i].id] @@ row ELSE rows[i]],
          data |-> [id |-> Len(rows)], error |-> None]

\* INSERT INTO transactions: the table afterwards and the client's result.
DbInsertTransaction(rows, row) ==
    IF UniqueWebhookId(rows, row)
    THEN [rows |-> Append(rows, WithId(rows, row)),
          data |-> [id |-> Len(rows) + 1], error |-> None]
    ELSE [rows |-> rows, data |-> None,
          error |-> StorageError("23505", "duplicate key value violates unique constraint")]

\* INSERT INTO parse_errors
DbInsertParseError(rows, row) ==
    [rows |-> Append(rows, WithId(rows, row)), error |-> None]

\* The date the row gets: a day before the local date on a host east of
\* Greenwich (local midnight is then still the previous day in UTC).
PrevDay(date) ==
    IF date.d > 1 THEN [date EXCEPT !.d = @ - 1]
    ELSE IF date.m > 1 THEN [y |-> date.y, m |-> date.m - 1,
                             d |-> DaysInMonth(date.y, date.m - 1)]
    ELSE [y |-> date.y - 1, m |-> 12, d |-> 31]

\* date.toISOString().split('T')[0] of a local-midnight date on a host whose
\* clock is utcOffset hours ahead of UTC.
ToISODate(date, utcOffset) == IF utcOffset > 0 THEN PrevDay(date) ELSE date

\* The row inserted into parse_errors (occurred_at is the current instant).
ParseErrorRow(message, reason, webhookId) ==
    [raw_message |-> message, error_reason |-> reason, webhook_id |-> webhookId,
     resolved |-> FALSE]

\* Mutation: the account number stored without its "**" mask.
TransactionData_AccountUnmasked(parsedMessage, message, webhookId, utcOffset) ==
    [amount |-> parsedMessage.amount, currency |-> "COP",
     sender_name |-> parsedMessage.senderName,
     account_number |-> Tail(Tail(parsedMessage.account)),
     transaction_date |-> ToISODate(parsedMessage.date, utcOffset),
     transaction_time |-> parsedMessage.time,
     raw_message |-> message, webhook_id |-> webhookId, status |-> "processed"]

\* transactionData (parsed_at is the current instant).
TransactionData(parsedMessage, message, webhookId, utcOffset) ==
    [amount |-> parsedMessage.amount, currency |-> "COP",
     sender_name |-> parsedMessage.senderName,
     account_number |-> parsedMessage.account,
     transaction_date |-> ToISODate(parsedMessage.date, utcOffset),
     transaction_time |-> parsedMessage.time,
     raw_message |-> message, webhook_id |-> webhookId, status |-> "processed"]

(***************************************************************************)
(* The POST handler after each storage call.                               *)
(***************************************************************************)
\* The handler's steps after a lookup that found nothing: lines 116-157.
ParseAndPrepare(q, utcOffset) ==
    LET webhookId == WebhookIdOf(q)
        message == MessageOf(q)
        parsedMessage == parseBancolombiaSMS(message)
    IN  IF ~parsedMessage.success
        THEN [q EXCEPT !.pc = "parse_error",
                       !.pending = ParseErrorRow(message,
                            IF parsedMessage.errorReason = Absent
                            THEN "Unknown parsing error" ELSE parsedMessage.errorReason,
                            webhookId)]
        ELSE [q EXCEPT !.pc = "insert",
                       !.pending = TransactionData(parsedMessage, message, webhookId,
                                                   utcOffset)]

\* Mutation: the handler without the duplicate branch (every delivery is
\* parsed and inserted).
AfterLookup_NoDuplicateBranch(q, res, utcOffset) ==
    IF res.error # None /\ res.error.code # "PGRST116"
    THEN Respond(q, Response(500, "error", "Database connection error", NoId,
                             WebhookIdOf(q)), <<LogEntry("error", FALSE)>>)
    ELSE ParseAndPrepare(q, utcOffset)

\* Mutation: the message is parsed before the lookup's result is looked at.
AfterLookup_ParseFirst(q, res, utcOffset) ==
    IF res.error # None /\ res.error.code # "PGRST116"
    THEN Respond(q, Response(500, "error", "Database connection error", NoId,
                             WebhookIdOf(q)), <<LogEntry("error", FALSE)>>)
    ELSE IF res.data # None /\ parseBancolombiaSMS(MessageOf(q)).success
    THEN Respond(q, Response(200, "duplicate", Absent, res.data.id, WebhookIdOf(q)), <<>>)
    ELSE ParseAndPrepare(q, utcOffset)

\* Mutation: a delivery that a cached list of transactions names is answered
\* as a duplicate without regard to the table.
AfterLookup_CacheConsulted(q, res, utcOffset) ==
    IF res.error # None /\ res.error.code # "PGRST116"
    THEN Respond(q, Response(500, "error", "Database connection error", NoId,
                             WebhookIdOf(q)), <<LogEntry("error", FALSE)>>)
    ELSE IF \E k \in DOMAIN cache : \E i \in DOMAIN cache[k].data :
               cache[k].data[i].webhookId = WebhookIdOf(q)
    THEN Respond(q, Response(200, "duplicate", Absent, 1, WebhookIdOf(q)), <<>>)
    ELSE IF res.data # None
    THEN Respond(q, Response(200, "duplicate", Absent, res.data.id, WebhookIdOf(q)), <<>>)
    ELSE ParseAndPrepare(q, utcOffset)

\* Mutation: a failed lookup taken for "no duplicate".
AfterLookup_ErrorAsNotFound(q, res, utcOffset) ==
    IF res.data # None
    THEN Respond(q, Response(200, "duplicate", Absent, res.data.id, WebhookIdOf(q)), <<>>)
    ELSE ParseAndPrepare(q, utcOffset)

\* After the duplicate lookup: storage error, duplicate, or parse and
\* prepare the row to insert.
AfterLookup(q, res, utcOffset) ==
    IF res.error # None /\ res.error.code # "PGRST116"
    THEN Respond(q, Response(500, "error", "Database connection error", NoId,
                             WebhookIdOf(q)), <<LogEntry("error", FALSE)>>)
    ELSE IF res.data # None
    THEN Respond(q, Response(200, "duplicate", Absent, res.data.id, WebhookIdOf(q)), <<>>)
    ELSE ParseAndPrepare(q, utcOffset)

\* Mutation: the parse failure answered without the parser's reason.
AfterParseErrorInsert_NoReason(q, res) ==
    Respond(q, Response(400, "error", "Parse failed", NoId, WebhookIdOf(q)),
            IF res.error # None THEN <<LogEntry("error", FALSE)>> ELSE <<>>)

\* After the insert of the parse failure: its error is only logged.
AfterParseErrorInsert(q, res) ==
    Respond(q, Response(400, "error",
                        "Parse failed: " \o parseBancolombiaSMS(MessageOf(q)).errorReason,
                        NoId, WebhookIdOf(q)),
            IF res.error # None THEN <<LogEntry("error", FALSE)>> ELSE <<>>)

\* Mutation: the failed insert recorded with the parser's reason.
AfterInsert_ParserReason(q, res) ==
    IF res.error # None
    THEN [q EXCEPT !.pc = "insert_failed",
                   !.log = Append(@, LogEntry("error", FALSE)),
                   !.pending = ParseErrorRow(MessageOf(q),
                                  parseBancolombiaSMS(MessageOf(q)).errorReason,
                                  WebhookIdOf(q))]
    ELSE Respond(q, Response(200, "processed", Absent, res.data.id, WebhookIdOf(q)),
                 <<LogEntry("log", TRUE)>>)

\* Mutation: the error of the transaction insert is not looked at.
AfterInsert_ErrorIgnored(q, res) ==
    Respond(q, Response(200, "processed", Absent,
                        IF res.data # None THEN res.data.id ELSE NoId, WebhookIdOf(q)),
            <<LogEntry("log", TRUE)>>)

\* After the insert of the transaction: on an error, go on to record the
\* failure in parse_errors; otherwise answer "processed".
AfterInsert(q, res) ==
    IF res.error # None
    THEN [q EXCEPT !.pc = "insert_failed",
                   !.log = Append(@, LogEntry("error", FALSE)),
                   !.pending = ParseErrorRow(MessageOf(q),
                                  "Database insert failed: " \o res.error.message,
                                  WebhookIdOf(q))]
    ELSE Respond(q, Response(200, "processed", Absent, res.data.id, WebhookIdOf(q)),
                 <<LogEntry("log", TRUE)>>)

\* Mutation: the failure answered without its { status: 500 } option.
AfterFailureLogged_DefaultCode(q) ==
    Respond(q, Response(200, "error", "Failed to store transaction", NoId,
                        WebhookIdOf(q)), <<>>)

\* After the failure has been recorded (whatever that insert returned).
AfterFailureLogged(q) ==
    Respond(q, Response(500, "error", "Failed to store transaction", NoId,
                        WebhookIdOf(q)), <<>>)

\* A storage call that fails with a returned error.
FailedCall == [data |-> None, error |-> StorageError("08006", "Database connection failed")]

Called(q, table, op, result) == [q EXCEPT !.ops = Append(@, Op(table, op, result))]

(***************************************************************************)
(* Actions: one per stretch of the handler between two awaits.             *)
(***************************************************************************)
\* POST is called: lines 25-88.  The request brings any Authorization
\* header, Content-Type and body; an input that the handler returns without
\* reading has no effect, so one value stands for all of them.
Receive(r) ==
    /\ req[r].pc = "idle"
    /\ \E h \in AuthHeaders :
       \E ct \in IF ConfigMissing \/ AuthRejection(h) # None
                 THEN {None} ELSE ContentTypes :
       \E b \in IF ConfigMissing \/ AuthRejection(h) # None
                    \/ ContentTypeRejection(ct) # None
                THEN {BadJson} ELSE Bodies :
          req' = [req EXCEPT ![r] = PreStorage(req[r], h, ct, b)]
    /\ UNCHANGED <<env, transactions, parse_errors, faults>>
    /\ UNCHANGED dashVars

\* The duplicate lookup returns: lines 90-157.
Lookup(r) ==
    /\ req[r].pc = "lookup"
    /\ \E f \in Outcomes, utcOffset \in HostUtcOffsets :
          LET res == IF f = "ok"
                     THEN Single(SelectByWebhookId(transactions, WebhookIdOf(req[r])))
                     ELSE FailedCall
              result == IF f # "ok" THEN f
                        ELSE IF res.data # None THEN "found" ELSE "not found"
              q == Called(req[r], "transactions", "select", result)
          IN /\ req' = [req EXCEPT ![r] = IF f = "throw" THEN CatchAll(q)
                                          ELSE AfterLookup(q, res, utcOffset)]
             /\ faults' = IF f = "ok" THEN faults ELSE faults + 1
    /\ UNCHANGED <<env, transactions, parse_errors>>
    /\ UNCHANGED dashVars

\* The insert of the parse failure returns: lines 119-143.
InsertParseError(r) ==
    /\ req[r].pc = "parse_error"
    /\ \E f \in Outcomes :
          LET res == IF f = "ok" THEN DbInsertParseError(parse_errors, req[r].pending)
                     ELSE [rows |-> parse_errors] @@ FailedCall
              q == Called(req[r], "parse_errors", "insert", f)
          IN /\ req' = [req EXCEPT ![r] = IF f = "throw" THEN CatchAll(q)
                                          ELSE AfterParseErrorInsert(q, res)]
             /\ parse_errors' = res.rows
             /\ faults' = IF f = "ok" THEN faults ELSE faults + 1
    /\ UNCHANGED <<env, transactions>>
    /\ UNCHANGED dashVars

\* The insert of the transaction returns: lines 159-167 and 185-203.
InsertTransaction(r) ==
    /\ req[r].pc = "insert"
    /\ \E f \in Outcomes :
          LET res == IF f = "ok" THEN DbInsertTransaction(transactions, req[r].pending)
                     ELSE [rows |-> transactions] @@ FailedCall
              result == IF f # "ok" THEN f
                        ELSE IF res.error # None THEN "unique violation" ELSE "ok"
              q == Called(req[r], "transactions", "insert", result)
          IN /\ req' = [req EXCEPT ![r] = IF f = "throw" THEN CatchAll(q)
                                          ELSE AfterInsert(q, res)]
             /\ transactions' = res.rows
             /\ faults' = IF f = "ok" THEN faults ELSE faults + 1
    /\ UNCHANGED <<env, parse_errors>>
    /\ UNCHANGED dashVars

\* The insert that records the failed transaction insert returns: lines 168-183.
LogInsertFailure(r) ==
    /\ req[r].pc = "insert_failed"
    /\ \E f \in Outcomes :
          LET res == IF f = "ok" THEN DbInsertParseError(parse_errors, req[r].pending)
                     ELSE [rows |-> parse_errors] @@ FailedCall
              q == Called(req[r], "parse_errors", "insert", f)
          IN /\ req' = [req EXCEPT ![r] = IF f = "throw" THEN CatchAll(q)
                                          ELSE AfterFailureLogged(q)]
             /\ parse_errors' = res.rows
             /\ faults' = IF f = "ok" THEN faults ELSE faults + 1
    /\ UNCHANGED <<env, transactions>>
    /\ UNCHANGED dashVars

Next ==
    \E r \in Req :
        \/ Receive(r)
        \/ Lookup(r)
        \/ InsertParseError(r)
        \/ InsertTransaction(r)
        \/ LogInsertFailure(r)

Spec == Init /\ [][Next]_vars

(***************************************************************************)
(* The dashboard's read paths: calendar, MemoryCache, and the reads and    *)
(* writes of TransactionDatabase and ParseErrorDatabase.                   *)
(***************************************************************************)
\* TTLs and the query timeout, in milliseconds.
ListTtlMs == 300000
FilteredTtlMs == 60000
MetricsTtlMs == 600000
QueryTimeoutMs == 10000

\* Date.now() is counted from 2025-01-01T12:00:00Z: the calendar date of
\* that instant, in UTC.
EpochDate == [y |-> 2025, m |-> 1, d |-> 1]

\* The day after a calendar date.
NextDay(date) == NewDate(date.y, date.m - 1, date.d + 1)

\* new Date(y, m, d + n) for a small n of either sign.
RECURSIVE AddDays(_, _)
AddDays(date, n) ==
    IF n = 0 THEN date
    ELSE IF n > 0 THEN AddDays(NextDay(date), n - 1)
    ELSE AddDays(PrevDay(date), n + 1)

\* Days from 1970-01-01 to a calendar date.
DaysFromCivil(date) ==
    LET y   == IF date.m <= 2 THEN date.y - 1 ELSE date.y
        era == y \div 400
        yoe == y - era * 400
        mp  == IF date.m > 2 THEN date.m - 3 ELSE date.m + 9
        doy == (153 * mp + 2) \div 5 + date.d - 1
        doe == yoe * 365 + yoe \div 4 - yoe \div 100 + doy
    IN  era * 146097 + doe - 719468

\* Date.prototype.getDay(): 0 for Sunday .. 6 for Saturday.
GetDay(date) == (DaysFromCivil(date) + 4) % 7

\* The calendar date of the instant t on a clock utcOffset hours ahead of UTC.
DateAt(t, utcOffset) ==
    AddDays(EpochDate, IF t + (12 + utcOffset) * 3600000 >= 24 * 3600000 THEN 1 ELSE 0)

\* a < b for calendar dates (the order of their ISO strings).
DateLT(a, b) ==
    \/ a.y < b.y
    \/ a.y = b.y /\ a.m < b.m
    \/ a.y = b.y /\ a.m = b.m /\ a.d < b.d

DateLE(a, b) == a = b \/ DateLT(a, b)

\* --- MemoryCache: a Map from key to { data, timestamp, ttl }.
\* set(key, data, ttlMs) at the instant now
CacheSet(map, key, data, ttlMs, now) ==
    (key :> [data |-> data, timestamp |-> now, ttl |-> ttlMs]) @@ map

\* delete(key)
CacheDelete(map, key) == [k \in DOMAIN map \ {key} |-> map[k]]

\* clear()
CacheClear(map) == EmptyMap

\* Mutation: the sweep removes an entry as soon as its age reaches its ttl.
CacheCleanup_AtTtl(map, now) ==
    [k \in {key \in DOMAIN map : now - map[key].timestamp < map[key].ttl} |-> map[k]]

\* cleanup() at the instant now: every entry older than its ttl is deleted.
CacheCleanup(map, now) ==
    [k \in {key \in DOMAIN map : ~(now - map[key].timestamp > map[key].ttl)} |-> map[k]]

\* The raw entry of the Map, if any.
MapGet(map, key) ==
    IF key \in DOMAIN map THEN [some |-> TRUE, entry |-> map[key]]
    ELSE NoPrior

\* Mutation: get reports an expired entry as absent but leaves it in the Map.
CacheGet_ExpiredKept(map, key, now) ==
    IF key \notin DOMAIN map THEN [map |-> map, hit |-> FALSE]
    ELSE IF now - map[key].timestamp > map[key].ttl
    THEN [map |-> map, hit |-> FALSE]
    ELSE [map |-> map, hit |-> TRUE, data |-> map[key].data]

\* get(key) at the instant now: the Map afterwards and the value; an entry
\* older than its ttl is deleted and null is returned.
CacheGet(map, key, now) ==
    IF key \notin DOMAIN map THEN [map |-> map, hit |-> FALSE]
    ELSE IF now - map[key].timestamp > map[key].ttl
    THEN [map |-> CacheDelete(map, key), hit |-> FALSE]
    ELSE [map |-> map, hit |-> TRUE, data |-> map[key].data]

\* has(key) at the instant now: the Map afterwards and the answer; an entry
\* older than its ttl is deleted and false is returned.
CacheHas(map, key, now) ==
    IF key \notin DOMAIN map THEN [map |-> map, value |-> FALSE]
    ELSE IF now - map[key].timestamp > map[key].ttl
    THEN [map |-> CacheDelete(map, key), value |-> FALSE]
    ELSE [map |-> map, value |-> TRUE]

\* CacheKeys.metrics(`${period}:${date}`)
MetricsKey(period, date) == [prefix |-> "metrics", period |-> period, date |-> date]

\* createCacheKey('transactions', filters)
TransactionsKey(filters) == [prefix |-> "transactions", filters |-> filters]

Periods == {"daily", "weekly", "monthly"}

\* The filters of getTransactions the dashboard passes: none, or a status.
ListFilters == {[status |-> Absent], [status |-> "processed"]}

\* const ttl = filters.searchTerm || filters.status ? 60000 : 300000
TtlOf(filters) == IF filters.status # Absent THEN FilteredTtlMs ELSE ListTtlMs

\* transformTransaction(dbRow)
transformTransaction(dbRow) ==
    [id |-> dbRow.id, amount |-> dbRow.amount, currency |-> dbRow.currency,
     senderName |-> dbRow.sender_name, accountNumber |-> dbRow.account_number,
     date |-> dbRow.transaction_date, time |-> dbRow.transaction_time,
     rawMessage |-> dbRow.raw_message, webhookId |-> dbRow.webhook_id,
     status |-> dbRow.status]

\* The row that ORDER BY transaction_date DESC, created_at DESC puts first:
\* the latest date and, among equal dates, the row inserted last.
FirstInOrder(rows) ==
    CHOOSE i \in 1..Len(rows) :
        \A j \in 1..Len(rows) :
            \/ DateLT(rows[j].transaction_date, rows[i].transaction_date)
            \/ rows[j].transaction_date = rows[i].transaction_date /\ j <= i

RECURSIVE OrderDesc(_)
OrderDesc(rows) ==
    IF rows = <<>> THEN <<>>
    ELSE LET i == FirstInOrder(rows)
         IN  <<rows[i]>> \o OrderDesc(SubSeq(rows, 1, i - 1) \o SubSeq(rows, i + 1, Len(rows)))

Map(f(_), s) == [i \in 1..Len(s) |-> f(s[i])]

\* The query of getTransactions and the transformation of its rows: the
\* status filter and, when the filters carry them, the gte and lte of
\* transaction_date with the ISO dates of startDate and endDate.  (limit is
\* 50, more than the tables looked at hold.)
SelectTransactions(rows, filters) ==
    Map(transformTransaction,
        OrderDesc(SelectSeq(rows, LAMBDA t :
                      /\ filters.status = Absent \/ t.status = filters.status
                      /\ \/ "startDate" \notin DOMAIN filters
                         \/ DateLE(filters.startDate, t.transaction_date)
                      /\ \/ "endDate" \notin DOMAIN filters
                         \/ DateLE(t.transaction_date, filters.endDate))))

RECURSIVE SumAmounts(_)
SumAmounts(rows) == IF rows = <<>> THEN 0 ELSE Head(rows).amount + SumAmounts(Tail(rows))

\* Mutation: the aggregate query without its status filter.
getTransactionMetrics_AnyStatus(rows, startDate, endDate, now) ==
    LET data == SelectSeq(rows, LAMBDA t :
                    /\ DateLE(startDate, t.transaction_date)
                    /\ DateLE(t.transaction_date, endDate))
        totalAmount == SumAmounts(data)
        transactionCount == Len(data)
    IN  [totalAmount |-> totalAmount, transactionCount |-> transactionCount,
         averageAmount |-> IF transactionCount > 0
                           THEN [num |-> totalAmount, den |-> transactionCount]
                           ELSE [num |-> 0, den |-> 1],
         lastUpdated |-> now]

\* getTransactionMetrics({ startDate, endDate }) at the instant now, the two
\* dates already as the ISO dates the query compares with (gte and lte).
getTransactionMetrics(rows, startDate, endDate, now) ==
    LET data == SelectSeq(rows, LAMBDA t :
                    /\ t.status = "processed"
                    /\ DateLE(startDate, t.transaction_date)
                    /\ DateLE(t.transaction_date, endDate))
        totalAmount == SumAmounts(data)
        transactionCount == Len(data)
    IN  [totalAmount |-> totalAmount, transactionCount |-> transactionCount,
         averageAmount |-> IF transactionCount > 0
                           THEN [num |-> totalAmount, den |-> transactionCount]
                           ELSE [num |-> 0, den |-> 1],
         lastUpdated |-> now]

\* The date range of getDetailedMetrics for a period and the local calendar
\* date ref: [startDate, endDate], both local midnights.
PeriodRange(period, ref) ==
    IF period = "daily"
    THEN [startDate |-> ref, endDate |-> AddDays(ref, 1)]
    ELSE IF period = "weekly"
    THEN LET dayOfWeek == IF GetDay(ref) = 0 THEN 7 ELSE GetDay(ref)
             startDate == AddDays(ref, 1 - dayOfWeek)
         IN  [startDate |-> startDate, endDate |-> AddDays(startDate, 7)]
    ELSE [startDate |-> [ref EXCEPT !.d = 1],
          endDate |-> IF ref.m = 12 THEN [y |-> ref.y + 1, m |-> 1, d |-> 1]
                      ELSE [y |-> ref.y, m |-> ref.m + 1, d |-> 1]]

\* The result of getDetailedMetrics computed from the table.
DetailedMetrics(rows, period, range, utcOffset, now) ==
    [period |-> period, periodStart |-> range.startDate, periodEnd |-> range.endDate]
      @@ getTransactionMetrics(rows, ToISODate(range.startDate, utcOffset),
                               ToISODate(range.endDate, utcOffset), now)

\* --- The dashboard store (stores/dashboard.ts).
\* The local calendar day of new Date(transaction_date), the UTC midnight of
\* the stored date, on a host whose clock is utcOffset hours ahead of UTC.
LocalDay(date, utcOffset) == IF utcOffset < 0 THEN PrevDay(date) ELSE date

\* startOfDay..endOfDay, startOfWeek..endOfWeek (weekStartsOn: 1) and
\* startOfMonth..endOfMonth of the local date ref: the first and the last
\* day of the period.
PeriodWindow(period, ref) ==
    IF period = "daily"
    THEN [periodStart |-> ref, periodEnd |-> ref]
    ELSE IF period = "weekly"
    THEN LET monday == AddDays(ref, - ((GetDay(ref) + 6) % 7))
         IN  [periodStart |-> monday, periodEnd |-> AddDays(monday, 6)]
    ELSE [periodStart |-> [ref EXCEPT !.d = 1],
          periodEnd |-> [ref EXCEPT !.d = DaysInMonth(ref.y, ref.m)]]

\* calculatePeriodMetrics(transactions, period, referenceDate) on a host
\* utcOffset hours ahead of UTC, at the instant now.
calculatePeriodMetrics(list, period, referenceDate, utcOffset, now) ==
    LET w == PeriodWindow(period, referenceDate)
        periodTransactions ==
            SelectSeq(list, LAMBDA t :
                /\ t.status = "processed"
                /\ DateLE(w.periodStart, LocalDay(t.date, utcOffset))
                /\ DateLE(LocalDay(t.date, utcOffset), w.periodEnd))
        totalAmount == SumAmounts(periodTransactions)
        transactionCount == Len(periodTransactions)
    IN  [period |-> period, totalAmount |-> totalAmount,
         transactionCount |-> transactionCount,
         averageAmount |-> IF transactionCount > 0
                           THEN [num |-> totalAmount, den |-> transactionCount]
                           ELSE [num |-> 0, den |-> 1],
         periodStart |-> w.periodStart, periodEnd |-> w.periodEnd,
         lastUpdated |-> now]

\* calculateMetrics(): the three period aggregates of the store's list.
calculateMetrics(list, utcOffset, now) ==
    [p \in Periods |-> calculatePeriodMetrics(list, p, DateAt(now, utcOffset), utcOffset, now)]

\* setTransactions(transactions), and the set of fetchTransactions followed
\* by calculateMetrics().
setTransactions(st, list, utcOffset, now) ==
    [st EXCEPT !.transactions = list, !.metrics = calculateMetrics(list, utcOffset, now)]

\* addTransaction(transaction)
addTransaction(st, transaction, utcOffset, now) ==
    setTransactions(st, Append(st.transactions, transaction), utcOffset, now)

(***************************************************************************)
(* The dashboard process: its callers of the gateway, its cache, the       *)
(* realtime subscription.                                                  *)
(***************************************************************************)
\* What the parser makes of the sample message.
GoodParsed == parseBancolombiaSMS(GoodSMS)

\* The data insertTransaction is called with: a delivery id and a status.
GatewayStatuses == {Absent, "failed"}

\* The row insertTransaction inserts for the sample message: status is
\* data.status || 'processed'.
GatewayRow(webhookId, status, utcOffset) ==
    [TransactionData(GoodParsed, GoodSMS, webhookId, utcOffset)
        EXCEPT !.status = IF status = Absent THEN "processed" ELSE status]

\* UPDATE parse_errors SET resolved = true WHERE id = id
DbResolveParseError(rows, id) ==
    [i \in 1..Len(rows) |-> IF rows[i].id = id THEN [rows[i] EXCEPT !.resolved = TRUE]
                            ELSE rows[i]]

\* A call that awaits its query: what it was called with, and what the
\* cache's Map held under its key when it was called.
Pending(op, arg, key, ttl, now, prior) ==
    [pc |-> "query", op |-> op, arg |-> arg, key |-> key, ttl |-> ttl,
     startedAt |-> now, prior |-> prior]

\* return data: the call's outcome, with where the data came from.
Returned(q, data, source) ==
    [op |-> q.op, arg |-> q.arg, key |-> q.key, prior |-> q.prior,
     how |-> "returned", data |-> data, source |-> source, failed |-> ""]

\* The call ends with data although its query failed.
ReturnedFallback(q, data, failed) ==
    [Returned(q, data, "fallback") EXCEPT !.failed = failed]

\* throw err: the call's outcome, with how its query failed.
Thrown(q, failed) ==
    [op |-> q.op, arg |-> q.arg, key |-> q.key, prior |-> q.prior,
     how |-> "thrown", data |-> None, source |-> "", failed |-> failed]

\* A caller is free to make a call.
Free(c) == call[c].pc = "idle"

\* TransactionDatabase.getTransactions(filters) is called: lines 71-122.
GetTransactionsCall(c) ==
    /\ Free(c)
    /\ \E filters \in ListFilters :
          LET key == TransactionsKey(filters)
              got == CacheGet(cache, key, clock)
              q   == Pending("getTransactions", filters, key, TtlOf(filters), clock,
                             MapGet(cache, key))
          IN /\ cache' = got.map
             /\ IF got.hit
                THEN call' = call /\ ret' = Returned(q, got.data, "cache")
                ELSE call' = [call EXCEPT ![c] = q] /\ ret' = ret
    /\ UNCHANGED <<env, req, transactions, parse_errors, faults, clock, events, subscribed, tz, store>>

\* getTransactions after the query failed or the timeout won: lines 146-157.
GetTransactionsCatch(q, fallbackCached, failed) ==
    IF fallbackCached.hit THEN ReturnedFallback(q, fallbackCached.data, failed)
    ELSE Thrown(q, failed)

\* The race of the query with the 10 s timeout settles: lines 124-157.  The
\* timeout wins exactly when ten seconds have passed.
GetTransactionsSettle(c) ==
    /\ call[c].pc = "query" /\ call[c].op = "getTransactions"
    /\ \E outcome \in IF clock - call[c].startedAt >= QueryTimeoutMs
                      THEN {"timeout"} ELSE {"ok", "error"} :
          IF outcome = "ok"
          THEN LET data == SelectTransactions(transactions, call[c].arg)
               IN /\ cache' = CacheSet(cache, call[c].key, data, call[c].ttl, clock)
                  /\ ret' = Returned(call[c], data, "storage")
          ELSE LET fallbackCached == CacheGet(cache, call[c].key, clock)
               IN /\ cache' = fallbackCached.map
                  /\ ret' = GetTransactionsCatch(call[c], fallbackCached, outcome)
    /\ call' = [call EXCEPT ![c] = NoCall]
    /\ UNCHANGED <<env, req, transactions, parse_errors, faults, clock, events, subscribed, tz, store>>

\* TransactionDatabase.getDetailedMetrics(period, new Date()) is called:
\* lines 208-238.
GetDetailedMetricsCall(c) ==
    /\ Free(c)
    /\ \E period \in Periods :
          LET key == MetricsKey(period, DateAt(clock, 0))
              got == CacheGet(cache, key, clock)
              arg == [period |-> period, range |-> PeriodRange(period, DateAt(clock, tz))]
              q   == Pending("getDetailedMetrics", arg, key, MetricsTtlMs, clock,
                             NoPrior)
          IN /\ cache' = got.map
             /\ IF got.hit
                THEN call' = call /\ ret' = Returned(q, got.data, "cache")
                ELSE call' = [call EXCEPT ![c] = q] /\ ret' = ret
    /\ UNCHANGED <<env, req, transactions, parse_errors, faults, clock, events, subscribed, tz, store>>

\* The query of getTransactionMetrics returns, however late: database.ts
\* lines 190-204 and 240-250.  An error is thrown to the caller.
GetDetailedMetricsSettle(c) ==
    /\ call[c].pc = "query" /\ call[c].op = "getDetailedMetrics"
    /\ \E outcome \in {"ok", "error"} :
          IF outcome = "ok"
          THEN LET result == DetailedMetrics(transactions, call[c].arg.period,
                                             call[c].arg.range, tz, clock)
               IN /\ cache' = CacheSet(cache, call[c].key, result, MetricsTtlMs, clock)
                  /\ ret' = Returned(call[c], result, "storage")
          ELSE /\ cache' = cache
               /\ ret' = Thrown(call[c], outcome)
    /\ call' = [call EXCEPT ![c] = NoCall]
    /\ UNCHANGED <<env, req, transactions, parse_errors, faults, clock, events, subscribed, tz, store>>

\* Time passes, to a later one of the instants the model looks at.
Tick(instants) ==
    /\ \E t \in instants : t > clock /\ clock' = t
    /\ UNCHANGED <<env, req, transactions, parse_errors, faults, cache, call, ret, events,
                   subscribed, tz, store>>

\* The INSERT events a subscribed dashboard will be called back with.
Published(rows) == IF subscribed THEN events \o rows ELSE events

\* A POST request for a fresh webhookId and the sample message runs to its
\* "processed" answer (route.ts lines 90-203): its effect on storage.
PostProcessed ==
    /\ \E w \in WebhookIds, utcOffset \in HostUtcOffsets :
          LET res == DbInsertTransaction(transactions,
                        TransactionData(GoodParsed, GoodSMS, w, utcOffset))
          IN /\ SelectByWebhookId(transactions, w) = <<>>
             /\ transactions' = res.rows
             /\ events' = Published(<<res.rows[Len(res.rows)]>>)
    /\ UNCHANGED <<env, req, parse_errors, faults, cache, clock, call, ret, subscribed, tz, store>>

\* Mutation: the error of the insert is not thrown; null is returned.
InsertTransactionCall_ErrorSwallowed(c) ==
    /\ Free(c)
    /\ \E w \in WebhookIds, status \in GatewayStatuses, utcOffset \in HostUtcOffsets :
          LET res == DbInsertTransaction(transactions, GatewayRow(w, status, utcOffset))
              q   == Pending("insertTransaction", [webhookId |-> w], None, 0, clock,
                             NoPrior)
          IN /\ transactions' = res.rows
             /\ events' = IF res.error = None
                          THEN Published(<<res.rows[Len(res.rows)]>>) ELSE events
             /\ ret' = IF res.error # None THEN Returned(q, None, "storage")
                       ELSE Returned(q, transformTransaction(res.rows[Len(res.rows)]),
                                     "storage")
    /\ UNCHANGED <<env, req, parse_errors, faults, cache, clock, call, subscribed, tz, store>>

\* TransactionDatabase.insertTransaction(data): database.ts lines 37-68.
InsertTransactionCall(c) ==
    /\ Free(c)
    /\ \E w \in WebhookIds, status \in GatewayStatuses, utcOffset \in HostUtcOffsets :
          LET res == DbInsertTransaction(transactions, GatewayRow(w, status, utcOffset))
              q   == Pending("insertTransaction", [webhookId |-> w], None, 0, clock,
                             NoPrior)
          IN /\ transactions' = res.rows
             /\ events' = IF res.error = None
                          THEN Published(<<res.rows[Len(res.rows)]>>) ELSE events
             /\ ret' = IF res.error # None THEN Thrown(q, "error")
                       ELSE Returned(q, transformTransaction(res.rows[Len(res.rows)]),
                                     "storage")
    /\ UNCHANGED <<env, req, parse_errors, faults, cache, clock, call, subscribed, tz, store>>

\* ParseErrorDatabase.resolveParseError(id): database.ts lines 338-348.  For
\* an id that no row has, .single() reports an error, which is thrown.
ResolveParseErrorCall(c) ==
    /\ Free(c)
    /\ \E id \in 1..(Len(parse_errors) + 1) :
          LET found == \E i \in 1..Len(parse_errors) : parse_errors[i].id = id
              rows  == DbResolveParseError(parse_errors, id)
              q     == Pending("resolveParseError", [id |-> id], None, 0, clock, NoPrior)
          IN /\ parse_errors' = rows
             /\ ret' = IF found THEN Returned(q, rows[id], "storage")
                       ELSE Thrown(q, "error")
    /\ UNCHANGED <<env, req, transactions, faults, cache, clock, call, events, subscribed, tz, store>>

\* subscribeToRealTime(): dashboard.ts lines 356-361 and 385.
Subscribe ==
    /\ ~subscribed
    /\ subscribed' = TRUE
    /\ UNCHANGED <<env, req, transactions, parse_errors, faults, cache, clock, call, ret,
                   events, tz, store>>

\* unsubscribeFromRealTime(): events not yet delivered are lost.
Unsubscribe ==
    /\ subscribed
    /\ subscribed' = FALSE
    /\ events' = <<>>
    /\ UNCHANGED <<env, req, transactions, parse_errors, faults, cache, clock, call, ret, tz, store>>

\* The three keys the realtime callback deletes: those of the current date.
EvictedKeys(now) == {MetricsKey(period, DateAt(now, 0)) : period \in Periods}

\* The callback of the realtime subscription runs for an INSERT event:
\* realtime.ts lines 28-31 and dashboard.ts lines 362-383.  The row is
\* transformed and added to the store's list, and the three keys are
\* deleted from the cache.
RealtimeCallback ==
    /\ events # <<>>
    /\ events' = Tail(events)
    /\ store' = addTransaction(store, transformTransaction(Head(events)), tz, clock)
    /\ cache' = [k \in DOMAIN cache \ EvictedKeys(clock) |-> cache[k]]
    /\ UNCHANGED <<env, req, transactions, parse_errors, faults, clock, call, ret,
                   subscribed, tz>>

\* date.toISOString().split('T')[0] of the last millisecond of a local day.
EndOfDayISODate(date, utcOffset) == IF utcOffset < 0 THEN NextDay(date) ELSE date

\* The statusFilter of the store: 'all' or a status.
StatusFilters == {"all", "processed"}

\* The dbFilters fetchTransactions builds (dashboard.ts lines 281-299) from
\* the store's dateRange, which is the month the page was loaded in
\* (initialDateRange, lines 249-252), and its statusFilter.
DbFilters(statusFilter, utcOffset) ==
    LET dateRange == PeriodWindow("monthly", DateAt(0, utcOffset))
    IN  [status |-> IF statusFilter = "all" THEN Absent ELSE statusFilter,
         startDate |-> ToISODate(dateRange.periodStart, utcOffset),
         endDate |-> EndOfDayISODate(dateRange.periodEnd, utcOffset)]

\* fetchTransactions() is called: dashboard.ts lines 277-301 and database.ts
\* lines 71-122.  With a cached list the call ends at once: the list is set
\* and the metrics are recalculated (lines 303-310).
FetchTransactionsCall(c) ==
    /\ Free(c)
    /\ \E statusFilter \in StatusFilters :
          LET filters == DbFilters(statusFilter, tz)
              key == TransactionsKey(filters)
              got == CacheGet(cache, key, clock)
              q   == Pending("fetchTransactions", filters, key, TtlOf(filters), clock,
                             MapGet(cache, key))
          IN /\ cache' = got.map
             /\ IF got.hit
                THEN /\ call' = call
                     /\ ret' = Returned(q, got.data, "cache")
                     /\ store' = setTransactions(store, got.data, tz, clock)
                ELSE /\ call' = [call EXCEPT ![c] = q]
                     /\ UNCHANGED <<ret, store>>
    /\ UNCHANGED <<env, req, transactions, parse_errors, faults, clock, events, subscribed, tz>>

\* The query of fetchTransactions settles: database.ts lines 124-157 and
\* dashboard.ts lines 303-319.  A thrown error leaves the list as it was.
FetchTransactionsSettle(c) ==
    /\ call[c].pc = "query" /\ call[c].op = "fetchTransactions"
    /\ \E outcome \in IF clock - call[c].startedAt >= QueryTimeoutMs
                      THEN {"timeout"} ELSE {"ok", "error"} :
          IF outcome = "ok"
          THEN LET data == SelectTransactions(transactions, call[c].arg)
               IN /\ cache' = CacheSet(cache, call[c].key, data, call[c].ttl, clock)
                  /\ ret' = Returned(call[c], data, "storage")
                  /\ store' = setTransactions(store, data, tz, clock)
          ELSE LET fallbackCached == CacheGet(cache, call[c].key, clock)
                   result == GetTransactionsCatch(call[c], fallbackCached, outcome)
               IN /\ cache' = fallbackCached.map
                  /\ ret' = result
                  /\ store' = IF result.how = "returned"
                              THEN setTransactions(store, result.data, tz, clock)
                              ELSE store
    /\ call' = [call EXCEPT ![c] = NoCall]
    /\ UNCHANGED <<env, req, transactions, parse_errors, faults, clock, events, subscribed, tz>>

\* The instants looked at by the list reads and by the aggregate reads.
ListInstants == {0, QueryTimeoutMs, ListTtlMs + 1}
MetricsInstants == {0, MetricsTtlMs + 1}

\* The dashboard's list reads beside a storage that deliveries are written to.
ListNext ==
    \/ \E c \in Callers : GetTransactionsCall(c) \/ GetTransactionsSettle(c)
    \/ Tick(ListInstants)
    \/ PostProcessed

ListInit == Init /\ env = GoodEnv

ListSpec == ListInit /\ [][ListNext]_vars

\* The dashboard's aggregate reads and its realtime subscription beside a
\* storage that deliveries are written to.
MetricsNext ==
    \/ GetDetailedMetricsCall("a") \/ GetDetailedMetricsSettle("a")
    \/ Tick(MetricsInstants)
    \/ PostProcessed
    \/ Subscribe
    \/ Unsubscribe
    \/ RealtimeCallback

\* The dashboard runs on a host of any of the time zones.
MetricsInit == PostInit /\ env = GoodEnv /\ DashInit /\ tz \in HostUtcOffsets

MetricsSpec == MetricsInit /\ [][MetricsNext]_vars

\* The POST requests that run beside the callers of the gateway.
StoreReq == {1}

\* The ingestion pipeline and the writes of the persistence gateway on one
\* storage.
StoreNext ==
    \/ \E r \in StoreReq :
          \/ Receive(r)
          \/ Lookup(r)
          \/ InsertParseError(r)
          \/ InsertTransaction(r)
          \/ LogInsertFailure(r)
    \/ \E c \in Callers :
          \/ InsertTransactionCall(c)
          \/ ResolveParseErrorCall(c)

StoreInit == Init /\ env = GoodEnv

StoreSpec == StoreInit /\ [][StoreNext]_vars

\* What the in-process cache may hold when a POST request arrives: nothing;
\* a list of transactions that names a delivery; an empty list.
CacheContents ==
    LET key == TransactionsKey([status |-> Absent])
        row == transformTransaction(WithId(<<>>, GatewayRow("w1", Absent, 0)))
    IN {EmptyMap,
        CacheSet(EmptyMap, key, <<row>>, ListTtlMs, 0),
        CacheSet(EmptyMap, key, <<>>, ListTtlMs, 0)}

\* The ingestion pipeline in a process whose cache holds any of these.
CachedInit ==
    /\ PostInit
    /\ cache \in CacheContents
    /\ clock = 0
    /\ call = [c \in Callers |-> NoCall]
    /\ ret = None
    /\ events = <<>>
    /\ subscribed = FALSE
    /\ store = NewStore
    /\ tz = 0

CachedSpec == CachedInit /\ [][Next]_vars

(***************************************************************************)
(* The aggregates: rows of any status are written through the gateway, the *)
(* dashboard reads the period aggregates of the database and computes      *)
(* those of its own list.                                                  *)
(***************************************************************************)
\* The status and the amount of the rows written: each delivery has its own
\* amount.
RowStatuses == {Absent, "failed", "duplicate"}
AmountOf(webhookId) == IF webhookId = "w1" THEN 100 ELSE 250

\* TransactionDatabase.insertTransaction(data) with data of any status, of
\* one of the stored dates: database.ts lines 37-68.
InsertTransactionDated(c, dates) ==
    /\ Free(c)
    /\ \E w \in WebhookIds, status \in RowStatuses, date \in dates :
          LET row == [GatewayRow(w, status, 0) EXCEPT !.transaction_date = date,
                                                      !.amount = AmountOf(w)]
              res == DbInsertTransaction(transactions, row)
              q   == Pending("insertTransaction", [webhookId |-> w], None, 0, clock,
                             NoPrior)
          IN /\ transactions' = res.rows
             /\ events' = IF res.error = None
                          THEN Published(<<res.rows[Len(res.rows)]>>) ELSE events
             /\ ret' = IF res.error # None THEN Thrown(q, "error")
                       ELSE Returned(q, transformTransaction(res.rows[Len(res.rows)]),
                                     "storage")
    /\ UNCHANGED <<env, req, parse_errors, faults, cache, clock, call, subscribed, tz, store>>

\* The rows written are dated today.
Today == {EpochDate}

AggregateNext ==
    \/ InsertTransactionDated("b", Today)
    \/ GetDetailedMetricsCall("a")
    \/ GetDetailedMetricsSettle("a")
    \/ FetchTransactionsCall("a")
    \/ FetchTransactionsSettle("a")

AggregateInit == Init /\ env = GoodEnv

AggregateSpec == AggregateInit /\ [][AggregateNext]_vars

(***************************************************************************)
(* The period windows: rows dated in and around the day, the week and the  *)
(* month of the reference date are written, and the aggregates are read.   *)
(***************************************************************************)
\* The reference date is Wednesday 2025-01-01: the day itself, the day after
\* it, the Monday after its week and the first day of the next month.
StoredDates ==
    {EpochDate, [y |-> 2025, m |-> 1, d |-> 2], [y |-> 2025, m |-> 1, d |-> 6],
     [y |-> 2025, m |-> 2, d |-> 1]}

WindowNext ==
    \/ InsertTransactionDated("b", StoredDates)
    \/ GetDetailedMetricsCall("a")
    \/ GetDetailedMetricsSettle("a")

WindowInit == Init /\ env = GoodEnv

WindowSpec == WindowInit /\ [][WindowNext]_vars

(***************************************************************************)
(* The SMS gateway retries one delivery until it is answered with a 2xx.   *)
(***************************************************************************)
\* The headers the gateway sends.
GatewayAuth == Header(<<"Bearer ", "s3">>)
GatewayContentType == Header(<<"application/json", "; charset=utf-8">>)

\* The request was answered with a status outside 200..299.
NonSuccess(q) == q.pc = "done" /\ q.resp.code \notin 200..299

\* The gateway sends a delivery, and sends it again as the next request
\* after each answer that is not a 2xx: same webhookId, same message.
Deliver(r) ==
    /\ req[r].pc = "idle"
    /\ \E b \in {Payload(m, w) : m \in Messages, w \in WebhookIds} :
          /\ r = 1 \/ (r > 1 /\ NonSuccess(req[r - 1]) /\ req[r - 1].body = b)
          /\ req' = [req EXCEPT ![r] = PreStorage(req[r], GatewayAuth, GatewayContentType, b)]
    /\ UNCHANGED <<env, transactions, parse_errors, faults>>
    /\ UNCHANGED dashVars

RetryNext ==
    \E r \in Req :
        \/ Deliver(r)
        \/ Lookup(r)
        \/ InsertParseError(r)
        \/ InsertTransaction(r)
        \/ LogInsertFailure(r)

\* Storage has failed before, and fails fewer times from now on than the
\* gateway delivers.
RetryInit ==
    /\ env = GoodEnv
    /\ req = [r \in Req |-> NewRequest]
    /\ transactions = <<>>
    /\ parse_errors = <<>>
    /\ faults = MaxFaults - (MaxReq - 1)
    /\ DashInit
    /\ tz = 0

\* Every storage call returns and the gateway keeps retrying: a step that
\* can be taken is taken.
RetrySpec == RetryInit /\ [][RetryNext]_vars /\ WF_vars(RetryNext)

(***************************************************************************)
(* The dashboard's list: fetched from the database and added to by the     *)
(* realtime subscription, beside a storage that deliveries are written to. *)
(***************************************************************************)
FeedNext ==
    \/ PostProcessed
    \/ Subscribe
    \/ Unsubscribe
    \/ RealtimeCallback
    \/ FetchTransactionsCall("a")
    \/ FetchTransactionsSettle("a")

FeedInit == Init /\ env = GoodEnv

FeedSpec == FeedInit /\ [][FeedNext]_vars

(***************************************************************************)
(* The cache on its own: calls of its methods as time passes.              *)
(***************************************************************************)
\* The keys, values and time-to-live arguments the cache is called with.
CacheKeyNames == {"k1", "k2"}
CacheValues == {[v |-> "x"], [v |-> "y"]}
CacheTtls == {FilteredTtlMs, ListTtlMs}

\* The instants looked at: each ttl, and one millisecond past it.
CacheInstants == {0, FilteredTtlMs, FilteredTtlMs + 1, ListTtlMs, ListTtlMs + 1}

\* The outcome of a call of a cache method: what it was called with, when,
\* what the Map held under the key, and what it returned.
CacheReturn(op, key, now, prior, value) ==
    [op |-> op, key |-> key, at |-> now, prior |-> prior, value |-> value]

\* cache.set(key, data, ttlMs)
CacheSetCall ==
    /\ \E key \in CacheKeyNames, data \in CacheValues, ttlMs \in CacheTtls :
          /\ cache' = CacheSet(cache, key, data, ttlMs, clock)
          /\ ret' = CacheReturn("set", key, clock, MapGet(cache, key),
                                [data |-> data, ttl |-> ttlMs])
    /\ UNCHANGED <<env, req, transactions, parse_errors, faults, clock, call, events,
                   subscribed, tz, store>>

\* cache.get(key): null is None.
CacheGetCall ==
    /\ \E key \in CacheKeyNames :
          LET got == CacheGet(cache, key, clock)
          IN /\ cache' = got.map
             /\ ret' = CacheReturn("get", key, clock, MapGet(cache, key),
                                   IF got.hit THEN got.data ELSE None)
    /\ UNCHANGED <<env, req, transactions, parse_errors, faults, clock, call, events,
                   subscribed, tz, store>>

\* cache.has(key)
CacheHasCall ==
    /\ \E key \in CacheKeyNames :
          LET got == CacheHas(cache, key, clock)
          IN /\ cache' = got.map
             /\ ret' = CacheReturn("has", key, clock, MapGet(cache, key), got.value)
    /\ UNCHANGED <<env, req, transactions, parse_errors, faults, clock, call, events,
                   subscribed, tz, store>>

\* cache.delete(key)
CacheDeleteCall ==
    /\ \E key \in CacheKeyNames :
          /\ cache' = CacheDelete(cache, key)
          /\ ret' = CacheReturn("delete", key, clock, MapGet(cache, key), None)
    /\ UNCHANGED <<env, req, transactions, parse_errors, faults, clock, call, events,
                   subscribed, tz, store>>

\* The outcome of a call of a method without a key: prior is the whole Map.
CacheReturnAll(op, now, map) ==
    [op |-> op, key |-> Absent, at |-> now, prior |-> [some |-> TRUE, entry |-> map],
     value |-> None]

\* cache.clear()
CacheClearCall ==
    /\ cache' = CacheClear(cache)
    /\ ret' = CacheReturnAll("clear", clock, cache)
    /\ UNCHANGED <<env, req, transactions, parse_errors, faults, clock, call, events,
                   subscribed, tz, store>>

\* cache.cleanup(), which the browser's timer calls every five minutes.
CacheCleanupCall ==
    /\ cache' = CacheCleanup(cache, clock)
    /\ ret' = CacheReturnAll("cleanup", clock, cache)
    /\ UNCHANGED <<env, req, transactions, parse_errors, faults, clock, call, events,
                   subscribed, tz, store>>

CacheNext ==
    \/ CacheSetCall
    \/ CacheGetCall
    \/ CacheHasCall
    \/ CacheDeleteCall
    \/ CacheClearCall
    \/ CacheCleanupCall
    \/ Tick(CacheInstants)

CacheInit == Init /\ env = GoodEnv

CacheSpec == CacheInit /\ [][CacheNext]_vars

(***************************************************************************)
(* The parser on its own: a message is parsed, and the fields of a         *)
(* successful result are written back into the template.                   *)
(***************************************************************************)
DigitChars == <<"0", "1", "2", "3", "4", "5", "6", "7", "8", "9">>
DigitChar(n) == DigitChars[n + 1]

\* A number as two and as four decimal digits.
TwoDigits(n) == <<DigitChar(n \div 10), DigitChar(n % 10)>>
FourDigits(n) == TwoDigits(n \div 100) \o TwoDigits(n % 100)

\* A positive integer in decimal, without grouping.
RECURSIVE ToDigits(_)
ToDigits(n) == IF n < 10 THEN <<DigitChar(n)>> ELSE Append(ToDigits(n \div 10), DigitChar(n % 10))

DateText(d, m, y) == TwoDigits(d) \o <<"/">> \o TwoDigits(m) \o <<"/">> \o FourDigits(y)
TimeText(h, mi) == TwoDigits(h) \o <<":">> \o TwoDigits(mi)

\* Every text over the characters S of at most n characters.
TextsUpTo(S, n) == UNION {[1..k -> S] : k \in 0..n}

\* The texts in the five slots of the messages that are parsed.
AmountTexts ==
    TextsUpTo({"0", "1", "5", ","}, MaxAmountLen)
      \cup {Chars("190,000"), <<"5", "0", "0">>,
            <<"1", ",", "2", "5", "0", ",", "5", "0", "0">>}
SenderTexts == TextsUpTo({"A", " ", "\t"}, MaxSenderLen) \cup {Chars("MA  B"), <<"a">>}
AccountTexts == {Chars("7251"), <<"7", "2", "5">>, <<"7", "2", "a", "1">>}
Years == {1899, 1900, 2000, 2024, 2025, 2100}
DateTexts ==
    {DateText(d, m, y) : d \in 0..32, m \in 0..13, y \in Years}
      \cup {<<"1", "/", "1", "/", "2", "0", "2", "5">>}
TimeTexts ==
    {TimeText(h, mi) : h \in 0..25, mi \in {0, 34, 59, 60, 99}}
      \cup {<<"8", ":", "0", "6">>}

\* The messages: each slot varied on its own in a message that is otherwise
\* the sample, and all combinations of a few good and bad values of the
\* slots, in the template and in another text.
FewAmounts == {<<"5", "0", "0">>, <<"0">>, <<",">>}
FewDates == {DateText(1, 1, 2025), DateText(29, 2, 2025), DateText(31, 4, 2025)}
FewTimes == {TimeText(8, 6), TimeText(25, 0), TimeText(12, 60)}
ParserInputs ==
    {[GoodSMS EXCEPT !.amount = a] : a \in AmountTexts}
      \cup {[GoodSMS EXCEPT !.date = d] : d \in DateTexts}
      \cup {[GoodSMS EXCEPT !.time = t] : t \in TimeTexts}
      \cup {Text(lit, a, s, acc, d, t) :
               lit \in BOOLEAN, a \in FewAmounts, s \in SenderTexts,
               acc \in AccountTexts, d \in FewDates, t \in FewTimes}

\* The fields of a successful result written into the template: the amount
\* in decimal, the sender name, the four digits after the "**" mask, the
\* date as DD/MM/YYYY, the time.
RenderTemplate(p) ==
    Text(TRUE, ToDigits(p.amount), p.senderName, SubSeq(p.account, 3, Len(p.account)),
         DateText(p.date.d, p.date.m, p.date.y), p.time)

\* A message to parse; from is the result it was rendered from, if any.
ToParse(message, from) == [op |-> "message", arg |-> message, from |-> from]

\* parseBancolombiaSMS(message) is called.
ParseCall ==
    /\ ret.op = "message"
    /\ ret' = [op |-> "parseBancolombiaSMS", arg |-> ret.arg, from |-> ret.from,
               value |-> parseBancolombiaSMS(ret.arg)]
    /\ UNCHANGED <<env, req, transactions, parse_errors, faults, cache, clock, call,
                   events, subscribed, tz, store>>

\* The fields of a successful result of a given message are rendered.
RenderCall ==
    /\ ret.op = "parseBancolombiaSMS"
    /\ ret.from = None
    /\ ret.value.success
    /\ ret' = ToParse(RenderTemplate(ret.value), ret.value)
    /\ UNCHANGED <<env, req, transactions, parse_errors, faults, cache, clock, call,
                   events, subscribed, tz, store>>

ParserNext == ParseCall \/ RenderCall

ParserInit ==
    /\ PostInit
    /\ env = GoodEnv
    /\ cache = EmptyMap
    /\ clock = 0
    /\ call = [c \in Callers |-> NoCall]
    /\ ret \in {ToParse(message, None) : message \in ParserInputs}
    /\ events = <<>>
    /\ subscribed = FALSE
    /\ store = NewStore
    /\ tz = 0

ParserSpec == ParserInit /\ [][ParserNext]_vars

(***************************************************************************)
(* The payload validator on its own.                                       *)
(***************************************************************************)
PayloadKeys == {"message", "timestamp", "phone", "webhookId"}

\* The values a key of a payload may have.
FieldValues == {JNull, JNumber(1), JStr(""), JStr("x")}

\* The payloads: primitives, null, undefined, and every object whose keys
\* are some of the four, each with any of the values.
ValidatorInputs ==
    {JUndefined, JNull, JNumber(0), JNumber(1), JBoolean(FALSE), JBoolean(TRUE),
     JStr(""), JStr("x")}
      \cup {JObject(f) : f \in UNION {[keys -> FieldValues] : keys \in SUBSET PayloadKeys}}

\* validateWebhookPayload(payload) is called.
ValidateCall ==
    /\ ret.op = "payload"
    /\ ret' = [op |-> "validateWebhookPayload", arg |-> ret.arg,
               value |-> validateWebhookPayload(ret.arg)]
    /\ UNCHANGED <<env, req, transactions, parse_errors, faults, cache, clock, call,
                   events, subscribed, tz, store>>

ValidatorInit ==
    /\ PostInit
    /\ env = GoodEnv
    /\ cache = EmptyMap
    /\ clock = 0
    /\ call = [c \in Callers |-> NoCall]
    /\ ret \in {[op |-> "payload", arg |-> payload] : payload \in ValidatorInputs}
    /\ events = <<>>
    /\ subscribed = FALSE
    /\ store = NewStore
    /\ tz = 0

ValidatorSpec == ValidatorInit /\ [][ValidateCall]_vars

(***************************************************************************)
(* Vocabulary of the properties.                                           *)
(***************************************************************************)
Done(r) == req[r].pc = "done"

\* r passed authentication and envelope validation: it is a delivery.
Validated(r) ==
    /\ req[r].pc # "idle"
    /\ req[r].body # Unread
    /\ req[r].body # BadJson
    /\ validateWebhookPayload(req[r].body)

\* r is a delivery with delivery id w.
Delivers(r, w) == Validated(r) /\ WebhookIdOf(req[r]) = w

\* Every storage call r made was served by the database.
StorageHealthy(r) ==
    \A i \in 1..Len(req[r].ops) : req[r].ops[i].result \notin {"error", "throw"}

Parseable(r) == parseBancolombiaSMS(MessageOf(req[r])).success

\* r made the storage call o.
Made(r, o) == \E i \in 1..Len(req[r].ops) : req[r].ops[i] = o

RowsOf(w) == SelectByWebhookId(transactions, w)

LookupNotFound == Op("transactions", "select", "not found")
LookupFound == Op("transactions", "select", "found")

(***************************************************************************)
(* C1.  The transactions table never holds two rows with the same          *)
(* webhook_id; and when every delivery received so far for a delivery id   *)
(* carries the same parseable envelope, has been answered, and met no      *)
(* storage failure, the table holds exactly one row with that id.          *)
(***************************************************************************)
C1_OneRowPerWebhookId ==
    /\ \A i, j \in 1..Len(transactions) :
          i # j => transactions[i].webhook_id # transactions[j].webhook_id
    /\ \A w \in WebhookIds :
          LET D == {r \in Req : Delivers(r, w)}
          IN  ( /\ D # {}
                /\ \A r \in D : Done(r) /\ StorageHealthy(r) /\ Parseable(r)
                /\ \A r1, r2 \in D : req[r1].body = req[r2].body )
              => Len(RowsOf(w)) = 1

\* Two deliveries of one envelope raced (one met the uniqueness violation),
\* both are answered, and one row exists.
C1_Witness ==
    \E r1, r2 \in Req :
        /\ r1 # r2 /\ Done(r1) /\ Done(r2)
        /\ Delivers(r1, "w1") /\ Delivers(r2, "w1")
        /\ StorageHealthy(r1) /\ StorageHealthy(r2)
        /\ Made(r1, Op("transactions", "insert", "ok"))
        /\ Made(r2, Op("transactions", "insert", "unique violation"))
        /\ Len(RowsOf("w1")) = 1

(***************************************************************************)
(* C2.  A request whose lookup found no row and whose insert then met the  *)
(* uniqueness violation on webhook_id is answered HTTP 200 "duplicate".    *)
(***************************************************************************)
C2_RaceAnsweredDuplicate ==
    \A r \in Req :
        ( /\ Done(r) /\ StorageHealthy(r)
          /\ Made(r, LookupNotFound)
          /\ Made(r, Op("transactions", "insert", "unique violation")) )
        => req[r].resp.code = 200 /\ req[r].resp.status = "duplicate"

(***************************************************************************)
(* C3.  Among the answered deliveries of one parseable envelope that met   *)
(* no storage failure, at most one response is not "duplicate" (the first, *)
(* "processed" or "error"); all others are "duplicate".                    *)
(***************************************************************************)
C3_ReplaysAnsweredDuplicate ==
    \A w \in WebhookIds :
        LET D == {r \in Req : Delivers(r, w) /\ Done(r) /\ StorageHealthy(r)
                               /\ Parseable(r)}
        IN  Cardinality({r \in D : req[r].resp.status # "duplicate"}) <= 1

(***************************************************************************)
(* C4.  Once a delivery of w has been answered "processed" with id t, a    *)
(* request for w whose lookup is served afterwards (so every later POST)   *)
(* is answered 200 "duplicate" with transactionId t and webhookId w, and   *)
(* makes no insert: its only storage call is the lookup, and neither table *)
(* changes.                                                                *)
(***************************************************************************)
C4_ReplayAfterProcessed ==
    [][\A r, p \in Req :
          ( /\ req[r].pc = "lookup" /\ req'[r].pc # "lookup"
            /\ req'[r].ops[1].result \notin {"error", "throw"}
            /\ Done(p) /\ req[p].resp.status = "processed"
            /\ req[p].resp.webhookId = WebhookIdOf(req[r]) )
          => /\ req'[r].pc = "done"
             /\ req'[r].resp = Response(200, "duplicate", Absent,
                                        req[p].resp.transactionId, WebhookIdOf(req[r]))
             /\ req'[r].ops = <<LookupFound>>
             /\ transactions' = transactions
             /\ parse_errors' = parse_errors]_vars

C4_Witness ==
    \E r, p \in Req :
        /\ Done(p) /\ req[p].resp.status = "processed"
        /\ Done(r) /\ req[r].resp.status = "duplicate"
        /\ req[r].resp.webhookId = req[p].resp.webhookId
        /\ req[r].resp.transactionId = req[p].resp.transactionId
        /\ req[r].ops = <<LookupFound>>

(***************************************************************************)
(* C5.  A duplicate lookup that fails (a returned error other than         *)
(* PGRST116, or a thrown one) ends the request with HTTP 500 and status    *)
(* "error"; the lookup is the request's only storage call, so nothing is   *)
(* inserted into transactions or parse_errors for it.                      *)
(***************************************************************************)
C5_LookupFailureIsTerminal ==
    \A r \in Req :
        /\ Made(r, Op("transactions", "select", "error"))
              => /\ Done(r)
                 /\ req[r].resp = Response(500, "error", "Database connection error",
                                           NoId, WebhookIdOf(req[r]))
                 /\ Len(req[r].ops) = 1
        /\ Made(r, Op("transactions", "select", "throw"))
              => /\ Done(r)
                 /\ req[r].resp.code = 500 /\ req[r].resp.status = "error"
                 /\ Len(req[r].ops) = 1

C5_Witness ==
    \E r \in Req :
        /\ Done(r) /\ req[r].ops = <<Op("transactions", "select", "error")>>
        /\ req[r].resp.code = 500
        /\ transactions = <<>> /\ parse_errors = <<>>

\* The handler's insert of the parse failure, and how it ended.
ParseErrorInsert(result) == Op("parse_errors", "insert", result)
\* The handler's insert of the transaction, and how it ended.
TransactionInsert(result) == Op("transactions", "insert", result)

\* r went down the parse-failure path: its second storage call is the insert
\* of the parse failure.
ParseFailurePath(r) ==
    /\ Len(req[r].ops) >= 2
    /\ req[r].ops[1] = LookupNotFound
    /\ req[r].ops[2].table = "parse_errors"

\* The answer to a parse failure.
ParseFailedResponse(r) ==
    Response(400, "error",
             "Parse failed: " \o parseBancolombiaSMS(MessageOf(req[r])).errorReason,
             NoId, WebhookIdOf(req[r]))

C7_ParseFailureRecorded ==
    \A r \in Req :
        /\ ( Validated(r) /\ ~Parseable(r) )
              => /\ req[r].pc \in {"lookup", "parse_error", "done"}
                 /\ \A f \in {"ok", "error", "throw", "unique violation"} :
                        ~Made(r, TransactionInsert(f))
        /\ ( Done(r) /\ ParseFailurePath(r) /\ req[r].ops[2].result = "ok" )
              => LET message == MessageOf(req[r])
                     reason == IF message = ZeroAmountSMS THEN InvalidAmountReason
                               ELSE PatternMismatchReason
                 IN  /\ ~Parseable(r)
                     /\ req[r].ops = <<LookupNotFound, ParseErrorInsert("ok")>>
                     /\ \E i \in 1..Len(parse_errors) :
                           /\ parse_errors[i].raw_message = message
                           /\ parse_errors[i].error_reason = reason
                           /\ parse_errors[i].webhook_id = WebhookIdOf(req[r])
                           /\ parse_errors[i].resolved = FALSE
                     /\ req[r].resp = Response(400, "error", "Parse failed: " \o reason,
                                               NoId, WebhookIdOf(req[r]))

\* Two deliveries were rejected by the parser for different reasons and
\* recorded.
C7_Witness ==
    \E r1, r2 \in Req :
        /\ Done(r1) /\ Done(r2)
        /\ req[r1].ops = <<LookupNotFound, ParseErrorInsert("ok")>>
        /\ req[r2].ops = <<LookupNotFound, ParseErrorInsert("ok")>>
        /\ MessageOf(req[r1]) = ZeroAmountSMS /\ MessageOf(req[r2]) = OtherSMS
        /\ Len(parse_errors) = 2 /\ transactions = <<>>

(***************************************************************************)
(* C8.  When the insert of the parse failure fails, by a returned error or *)
(* by a thrown exception, the answer is the one given when it succeeds:    *)
(* HTTP 400, status "error", the webhookId and the parse failure reason.   *)
(***************************************************************************)
C8_SameAnswerWhenRecordingFails ==
    \A r \in Req :
        ( Done(r) /\ ParseFailurePath(r) /\ req[r].ops[2].result \in {"error", "throw"} )
        => req[r].resp = ParseFailedResponse(r)

\* The bearer token of a header that starts with "Bearer ".
TokenOf(h) == Tail(h.parts)

\* r's Authorization header was read and is missing or is no bearer header.
NoBearer(r) ==
    /\ req[r].authHeader # Unread
    /\ req[r].authHeader = None \/ ~StartsWith(req[r].authHeader, "Bearer ")

\* r's Authorization header is a bearer header with another token than the
\* configured secret.
WrongToken(r) ==
    /\ req[r].authHeader # Unread /\ req[r].authHeader # None
    /\ StartsWith(req[r].authHeader, "Bearer ")
    /\ TokenOf(req[r].authHeader) # <<env.WEBHOOK_SECRET>>

\* r returned without reading the body or calling storage.
NothingReadNorStored(r) ==
    /\ req[r].contentType = Unread
    /\ req[r].body = Unread
    /\ req[r].ops = <<>>

(***************************************************************************)
(* C9.  A request whose Authorization header is missing or no bearer       *)
(* header is answered HTTP 401; so is one whose bearer token differs from  *)
(* the configured secret, with another error string; neither reads the     *)
(* body nor makes a storage call, and the tables stay as they were.        *)
(***************************************************************************)
C9_AuthRejection ==
    /\ \A r \in Req :
          (NoBearer(r) \/ WrongToken(r))
          => /\ Done(r)
             /\ req[r].resp.code = 401 /\ req[r].resp.status = "error"
             /\ req[r].resp.error # Absent
             /\ NothingReadNorStored(r)
    /\ \A r1, r2 \in Req :
          /\ (NoBearer(r1) /\ NoBearer(r2)) => req[r1].resp.error = req[r2].resp.error
          /\ (NoBearer(r1) /\ WrongToken(r2)) => req[r1].resp.error # req[r2].resp.error
    /\ (\A r \in Req : req[r].pc = "idle" \/ NoBearer(r) \/ WrongToken(r))
          => transactions = <<>> /\ parse_errors = <<>>

\* Both rejections have happened, one of them of a token that repeats the
\* "Bearer " prefix before the secret.
C9_Witness ==
    \E r1, r2 \in Req :
        /\ Done(r1) /\ NoBearer(r1) /\ req[r1].resp.code = 401
        /\ Done(r2) /\ WrongToken(r2) /\ req[r2].resp.code = 401
        /\ req[r2].authHeader = Header(<<"Bearer ", "Bearer ", "s3">>)

\* r is authenticated and its Content-Type is missing or not JSON.
WrongContentType(r) ==
    /\ req[r].contentType # Unread
    /\ req[r].contentType = None \/ ~Includes(req[r].contentType, "application/json")

\* r is authenticated, declares JSON, and its body is not JSON.
UnparseableBody(r) == req[r].body = BadJson

\* r is authenticated, declares JSON, and validateWebhookPayload rejects its
\* body.
InvalidPayload(r) ==
    /\ req[r].body # Unread /\ req[r].body # BadJson
    /\ ~validateWebhookPayload(req[r].body)

EnvelopeRejections(r) ==
    (IF WrongContentType(r) THEN {"content type"} ELSE {})
      \cup (IF UnparseableBody(r) THEN {"json"} ELSE {})
      \cup (IF InvalidPayload(r) THEN {"payload"} ELSE {})

(***************************************************************************)
(* C10.  An authenticated request with a Content-Type that is not          *)
(* application/json, with a body that is not JSON, or with a body that     *)
(* validateWebhookPayload rejects is answered HTTP 400; the error strings  *)
(* of the three cases are pairwise distinct; no storage call is made.      *)
(***************************************************************************)
C10_EnvelopeRejection ==
    /\ \A r \in Req :
          EnvelopeRejections(r) # {}
          => /\ Done(r)
             /\ req[r].resp.code = 400 /\ req[r].resp.status = "error"
             /\ req[r].resp.error # Absent
             /\ req[r].ops = <<>>
             /\ WrongContentType(r) => req[r].body = Unread
    /\ \A r1, r2 \in Req :
          (EnvelopeRejections(r1) # {} /\ EnvelopeRejections(r2) # {})
          => (req[r1].resp.error = req[r2].resp.error
                <=> EnvelopeRejections(r1) = EnvelopeRejections(r2))
    /\ (\A r \in Req : req[r].pc = "idle" \/ EnvelopeRejections(r) # {})
          => transactions = <<>> /\ parse_errors = <<>>

C10_Witness ==
    \E r1, r2 \in Req :
        /\ Done(r1) /\ UnparseableBody(r1) /\ req[r1].resp.code = 400
        /\ Done(r2) /\ InvalidPayload(r2) /\ req[r2].resp.code = 400
        /\ req[r1].resp.error # req[r2].resp.error

\* r returned at the environment check: nothing of the request was read.
ConfigurationError(r) == Done(r) /\ req[r].authHeader = Unread

\* A storage call of r failed with a returned error that ends the request:
\* the lookup, or the insert into transactions.
StorageFailure(r) ==
    \/ Made(r, Op("transactions", "select", "error"))
    \/ Made(r, TransactionInsert("error"))
    \/ Made(r, TransactionInsert("unique violation"))

\* A storage call of r threw: the request ended in the final catch.
UncaughtError(r) == \E i \in 1..Len(req[r].ops) : req[r].ops[i].result = "throw"

\* The parser rejected r's message and the insert that records it returned.
ParseFailed(r) == ParseFailurePath(r) /\ req[r].ops[2].result # "throw"

(***************************************************************************)
(* C11.  The HTTP status code of an answered request is a function of its  *)
(* outcome: it is 200 exactly when the body status is "processed" or       *)
(* "duplicate" (so a body with status "error" never has code 200); 401     *)
(* exactly for a missing or invalid credential; 400 exactly for a wrong    *)
(* Content-Type, a body that is not JSON, an envelope that fails           *)
(* validation, or a parse failure; 500 exactly for a storage failure, a    *)
(* configuration error or an exception caught by the final catch.          *)
(***************************************************************************)
C11_StatusCodeOfOutcome ==
    \A r \in Req :
        Done(r) =>
          /\ req[r].resp.code \in {200, 400, 401, 500}
          /\ req[r].resp.code = 200 <=> req[r].resp.status \in {"processed", "duplicate"}
          /\ req[r].resp.code # 200 <=> req[r].resp.status = "error"
          /\ req[r].resp.code = 401 <=> (NoBearer(r) \/ WrongToken(r))
          /\ req[r].resp.code = 400 <=> (EnvelopeRejections(r) # {} \/ ParseFailed(r))
          /\ req[r].resp.code = 500
                <=> (StorageFailure(r) \/ ConfigurationError(r) \/ UncaughtError(r))

\* A parse failure answered 400 and a storage failure answered 500.
C11_Witness ==
    \E r1, r2 \in Req :
        /\ Done(r1) /\ ParseFailed(r1) /\ req[r1].resp.code = 400
        /\ Done(r2) /\ StorageFailure(r2) /\ req[r2].resp.code = 500
        /\ req[r2].resp.status = "error"

\* The storage calls a request may have made, stage by stage: the duplicate
\* lookup; then, the lookup having found nothing, either the record of the
\* parse failure or the insert of the transaction; then, that insert having
\* failed, the record of the failure.
StageOrder(ops) ==
    /\ Len(ops) <= 3
    /\ Len(ops) >= 1 => ops[1].table = "transactions" /\ ops[1].op = "select"
    /\ Len(ops) >= 2 => /\ ops[1] = LookupNotFound
                        /\ ops[2].op = "insert"
    /\ Len(ops) = 3 => /\ ops[2] \in {TransactionInsert("error"),
                                      TransactionInsert("unique violation")}
                       /\ ops[3].table = "parse_errors" /\ ops[3].op = "insert"

\* The last storage call of r failed, or found the duplicate.
EndedAtLastCall(r) ==
    LET last == req[r].ops[Len(req[r].ops)]
    IN  \/ last.result \in {"throw", "found"}
        \/ last.op = "select" /\ last.result = "error"

(***************************************************************************)
(* C12.  The stages of a request run in the order authenticate, validate   *)
(* envelope, duplicate lookup, parse, persist, respond, and a request that *)
(* fails at a stage does nothing of a later stage: a rejected credential   *)
(* leaves Content-Type and body unread; a rejected envelope makes no       *)
(* storage call; the lookup is the first storage call and, when it fails   *)
(* or finds a row, the only one; a message the parser rejects is never     *)
(* inserted into transactions; an answered request holds no row to insert. *)
(* The lookup precedes parsing: a request whose lookup finds a row is      *)
(* answered "duplicate" with the lookup as its only storage call, whether  *)
(* or not its message parses.                                              *)
(***************************************************************************)
C12_StagesInOrder ==
    \A r \in Req :
        /\ StageOrder(req[r].ops)
        /\ req[r].pc = "idle" => req[r].ops = <<>> /\ req[r].resp = None
        /\ (NoBearer(r) \/ WrongToken(r)) => NothingReadNorStored(r)
        /\ EnvelopeRejections(r) # {} => req[r].ops = <<>>
        /\ WrongContentType(r) => req[r].body = Unread
        /\ req[r].ops # <<>> => Validated(r)
        /\ (req[r].ops # <<>> /\ EndedAtLastCall(r)) => Done(r)
        /\ (Validated(r) /\ ~Parseable(r))
              => \A i \in 1..Len(req[r].ops) :
                    ~(req[r].ops[i].table = "transactions" /\ req[r].ops[i].op = "insert")
        /\ (Validated(r) /\ Parseable(r) /\ Len(req[r].ops) >= 2)
              => req[r].ops[2].table = "transactions"
        /\ Made(r, LookupFound)
              => /\ req[r].ops = <<LookupFound>>
                 /\ req[r].resp.code = 200 /\ req[r].resp.status = "duplicate"
        /\ Done(r) <=> req[r].resp # None
        /\ Done(r) => req[r].pending = None
        /\ req[r].pc = "lookup" <=> (Validated(r) /\ req[r].ops = <<>>)
        /\ req[r].pc \in {"parse_error", "insert"} => req[r].ops = <<LookupNotFound>>
        /\ req[r].pc = "insert_failed" => Len(req[r].ops) = 2

\* A delivery whose message does not parse, for a webhookId that has its
\* transaction, was answered "duplicate" and no parse failure was recorded.
C12_Witness ==
    \E r \in Req :
        /\ Done(r) /\ Validated(r) /\ ~Parseable(r)
        /\ req[r].ops = <<LookupFound>>
        /\ req[r].resp.status = "duplicate"
        /\ Len(RowsOf(WebhookIdOf(req[r]))) = 1
        /\ parse_errors = <<>>

\* r awaits a storage call.
Awaiting(r) == req[r].pc \notin {"idle", "done"}

\* The program points at which a storage call is awaited; the handler goes
\* on from each of them however the call ends.
AwaitPoints == {"lookup", "parse_error", "insert", "insert_failed"}

\* The body of the final catch's response.
InternalServerError == Response(500, "error", "Internal server error", NoId, Absent)

(***************************************************************************)
(* C13.  Every request ends with exactly one structured response whose     *)
(* status is "processed", "duplicate" or "error".  In every step: a        *)
(* request that is not answered awaits one of the handler's four storage   *)
(* calls; a step of such a request is one more storage call, followed by   *)
(* its response or by another await, and at most three calls are made; an  *)
(* answered request has a response with one of the three statuses and      *)
(* takes no further step, so the response is never replaced.  A storage    *)
(* call that throws ends the request in the same step with HTTP 500,       *)
(* status "error", "Internal server error".                                *)
(***************************************************************************)
C13_OneStructuredResponse ==
    [][\A r \in Req :
          /\ Done(r) => req'[r] = req[r]
          /\ (Awaiting(r) /\ req'[r] # req[r])
                => /\ Len(req'[r].ops) = Len(req[r].ops) + 1
                   /\ req'[r].pc = "done" \/ req'[r].pc # req[r].pc
          /\ Awaiting(r)' => req'[r].pc \in AwaitPoints /\ req'[r].resp = None
          /\ Len(req'[r].ops) <= 3
          /\ Done(r)' => /\ req'[r].resp # None
                         /\ req'[r].resp.status \in {"processed", "duplicate", "error"}
                         /\ req'[r].resp.code \in {200, 400, 401, 500}
          /\ UncaughtError(r)' => Done(r)' /\ req'[r].resp = InternalServerError]_vars

\* The lookup of one request and the insert of a parse failure of another
\* have thrown, and both requests were answered by the final catch.
C13_Witness ==
    \E r1, r2 \in Req :
        /\ Done(r1) /\ req[r1].resp = InternalServerError
        /\ req[r1].ops = <<LookupNotFound, ParseErrorInsert("throw")>>
        /\ Done(r2) /\ req[r2].resp = InternalServerError
        /\ req[r2].ops = <<Op("transactions", "select", "throw")>>

(***************************************************************************)
(* C14.  Every answered request, whatever path it ended on, has written a  *)
(* console line that includes the elapsed processing time: console.log on  *)
(* a successful path (HTTP 200), console.error on a failed one.            *)
(***************************************************************************)
C14_EveryPathLogsElapsedTime ==
    \A r \in Req :
        Done(r) =>
          \E i \in 1..Len(req[r].log) :
              /\ req[r].log[i].elapsed
              /\ req[r].log[i].level = IF req[r].resp.code = 200 THEN "log" ELSE "error"

(***************************************************************************)
(* C15.  Every response to a request whose envelope was validated carries  *)
(* the request's webhookId, and every response with status "error" carries *)
(* an error string.                                                        *)
(***************************************************************************)
C15_ResponseCarriesWebhookId ==
    \A r \in Req :
        Done(r) =>
          /\ Validated(r) => req[r].resp.webhookId = WebhookIdOf(req[r])
          /\ req[r].resp.status = "error" => req[r].resp.error # Absent

\* "**" followed by four digits.
IsMaskedSuffix(account) ==
    /\ Len(account) = 6
    /\ account[1] = "*" /\ account[2] = "*"
    /\ \A i \in 3..6 : account[i] \in Digit

(***************************************************************************)
(* C16.  An answered delivery with a message that parses, whose lookup     *)
(* found no row, whose storage calls were all served and whose insert met  *)
(* no row of a concurrent delivery, made exactly the lookup and one insert *)
(* into transactions; the table holds exactly one row with its webhookId,  *)
(* and that row has status "processed", currency "COP", the parsed amount  *)
(* and sender, the account as "**" and four digits, the request's message  *)
(* as raw_message; the answer is HTTP 200, status "processed", with that   *)
(* row's id and the webhookId.                                             *)
(***************************************************************************)
C16_ProcessedRow ==
    \A r \in Req :
        ( /\ Done(r) /\ Validated(r) /\ Parseable(r) /\ StorageHealthy(r)
          /\ Made(r, LookupNotFound)
          /\ ~Made(r, TransactionInsert("unique violation")) )
        => LET w == WebhookIdOf(req[r])
               parsedMessage == parseBancolombiaSMS(MessageOf(req[r]))
               rows == RowsOf(w)
           IN  /\ req[r].ops = <<LookupNotFound, TransactionInsert("ok")>>
               /\ Len(rows) = 1
               /\ rows[1].status = "processed"
               /\ rows[1].currency = "COP"
               /\ rows[1].amount = parsedMessage.amount
               /\ rows[1].sender_name = parsedMessage.senderName
               /\ rows[1].account_number = parsedMessage.account
               /\ IsMaskedSuffix(rows[1].account_number)
               /\ rows[1].raw_message = MessageOf(req[r])
               /\ rows[1].webhook_id = w
               /\ req[r].resp = Response(200, "processed", Absent, rows[1].id, w)

\* The delivery of the sample message was stored: 190,000 pesos, account
\* **7251.
C16_Witness ==
    \E r \in Req :
        /\ Done(r) /\ req[r].ops = <<LookupNotFound, TransactionInsert("ok")>>
        /\ MessageOf(req[r]) = GoodSMS
        /\ req[r].resp.code = 200 /\ req[r].resp.status = "processed"
        /\ \E i \in 1..Len(transactions) :
              /\ transactions[i].id = req[r].resp.transactionId
              /\ transactions[i].amount = 190000
              /\ transactions[i].account_number = <<"*", "*", "7", "2", "5", "1">>
              /\ transactions[i].webhook_id = WebhookIdOf(req[r])

(***************************************************************************)
(* C17: rows are inserted, never updated or deleted.                       *)
(***************************************************************************)
\* Every row of a table before the step is, unchanged, at the same place in
\* the table after it, except the rows for which changed(old, new) holds.
OnlyAppended(old, new, changed(_, _)) ==
    /\ Len(new) >= Len(old)
    /\ \A i \in 1..Len(old) : new[i] = old[i] \/ changed(old[i], new[i])

\* No change of a row is allowed.
NeverChanged(old, new) == FALSE

\* The step is a resolveParseError(id) for this row and sets resolved to true.
ResolvedBy(outcome, old, new) ==
    /\ outcome # None
    /\ outcome.op = "resolveParseError"
    /\ outcome.arg.id = old.id
    /\ new = [old EXCEPT !.resolved = TRUE]

\* C17: in every step of the POST handler and of the persistence gateway,
\* every transactions row that exists stays in the table with all its
\* attributes unchanged, and a parse_errors row stays as it is unless the
\* step is resolveParseError of that row, which only sets resolved to true.
C17_RowsNeverUpdatedOrDeleted ==
    [][/\ OnlyAppended(transactions, transactions', NeverChanged)
       /\ OnlyAppended(parse_errors, parse_errors',
                       LAMBDA old, new : ResolvedBy(ret', old, new))]_vars

\* Two rows were written through the gateway, the first with status
\* "failed", a POST request recorded a parse failure, and resolveParseError
\* has resolved that row.
C17_Witness ==
    /\ Len(transactions) = 2
    /\ transactions[1].status = "failed"
    /\ \E r \in StoreReq : Done(r) /\ ParseFailed(r)
    /\ \E i \in 1..Len(parse_errors) : parse_errors[i].resolved
    /\ ret # None /\ ret.op = "resolveParseError" /\ ret.how = "returned"

(***************************************************************************)
(* C18: the duplicate decision is made against storage, not the cache.     *)
(***************************************************************************)
\* The step in which request r's duplicate lookup returns.
LookupReturns(r) == req[r].pc = "lookup" /\ req'[r].pc # "lookup"

\* What a lookup that storage serves finds in the table, as the handler
\* records it.
LookupInTable(w) == IF RowsOf(w) # <<>> THEN LookupFound ELSE LookupNotFound

\* C18: whatever the in-process cache holds (nothing, a list naming the
\* delivery, an empty list), a served duplicate lookup finds what the
\* transactions table holds, the request is answered "duplicate" exactly
\* when the table has a row of its webhookId, and no step of a POST request
\* changes the cache; so runs that differ only in the cache make the same
\* storage calls and give the same response.
C18_DuplicateDecisionIgnoresCache ==
    [][/\ cache' = cache
       /\ \A r \in Req :
             LookupReturns(r) /\ faults' = faults =>
                LET w    == WebhookIdOf(req[r])
                    last == req'[r].ops[Len(req'[r].ops)]
                IN /\ last = LookupInTable(w)
                   /\ (req'[r].pc = "done" /\ req'[r].resp.status = "duplicate")
                         <=> RowsOf(w) # <<>>
                   /\ RowsOf(w) # <<>> =>
                         req'[r].resp.transactionId = RowsOf(w)[1].id]_vars

\* The cache holds a list that names a delivery, and a request for that
\* delivery was nevertheless looked up in the table, not found there, and
\* processed as new.
C18_Witness ==
    \E r \in Req :
        /\ Done(r)
        /\ req[r].resp.status = "processed"
        /\ req[r].ops # <<>> /\ req[r].ops[1] = LookupNotFound
        /\ \E k \in DOMAIN cache :
              /\ cache[k].data # <<>>
              /\ cache[k].data[1].webhookId = WebhookIdOf(req[r])

(***************************************************************************)
(* C19: cached aggregates after a new transaction.                         *)
(***************************************************************************)
\* The step in which a getDetailedMetrics call is answered from the cache.
AnsweredFromCache ==
    /\ ret' # ret
    /\ ret'.op = "getDetailedMetrics"
    /\ ret'.source = "cache"

\* C19: no getDetailedMetrics read is answered with a cached aggregate that
\* omits a transaction of its period which the table holds: the count and
\* the total it returns are those of the table at the time of the read.
C19_NoStaleCachedAggregate ==
    [][AnsweredFromCache =>
          LET fresh == DetailedMetrics(transactions, ret'.arg.period, ret'.arg.range,
                                       tz, clock)
          IN /\ ret'.data.transactionCount = fresh.transactionCount
             /\ ret'.data.totalAmount = fresh.totalAmount]_vars

(***************************************************************************)
(* C20: a read whose query fails or times out.                             *)
(***************************************************************************)
\* The last call was a dashboard read whose query failed or lost the race
\* with the timeout, for a key under which a value had been cached.
FailedReadWithCachedValue ==
    /\ ret # None
    /\ ret.op = "getTransactions"
    /\ ret.failed \in {"error", "timeout"}
    /\ ret.prior.some

\* C20: a getTransactions call whose query fails or exceeds the timeout,
\* and for whose key a value was cached before, returns that cached value
\* (and so neither throws nor returns an empty or partial list).
C20_FailedReadReturnsLastCached ==
    FailedReadWithCachedValue =>
        /\ ret.how = "returned"
        /\ ret.source = "fallback"
        /\ ret.data = ret.prior.entry.data

(***************************************************************************)
(* C21: expiry is checked lazily, on read.                                 *)
(***************************************************************************)
\* The step is a call of a cache method.
CacheCalled(op) == ret' # ret /\ ret'.op = op

\* The Map holds under the key an entry that has not outlived its ttl now.
Live(map, key, now) ==
    key \in DOMAIN map /\ now - map[key].timestamp <= map[key].ttl

\* C21: set stores the value with the current instant and the ttl; a get or
\* has at an instant t with t - t0 <= ttl returns the stored value (true for
\* has) and leaves the Map as it is; a get or has at t - t0 > ttl, or for a
\* key never set, returns null (false for has), and afterwards the Map has
\* no entry for the key, so that no later read returns it unless it is set
\* again.
C21_LazyExpiryOnRead ==
    [][/\ CacheCalled("set") =>
             /\ ret'.key \in DOMAIN cache'
             /\ cache'[ret'.key] = [data |-> ret'.value.data, timestamp |-> clock,
                                    ttl |-> ret'.value.ttl]
       /\ \A op \in {"get", "has"} :
             CacheCalled(op) =>
                IF Live(cache, ret'.key, clock)
                THEN /\ cache' = cache
                     /\ ret'.value = IF op = "get" THEN cache[ret'.key].data ELSE TRUE
                ELSE /\ ret'.key \notin DOMAIN cache'
                     /\ ret'.value = IF op = "get" THEN None ELSE FALSE
       /\ \A key \in DOMAIN cache' \ DOMAIN cache : CacheCalled("set") /\ ret'.key = key
      ]_vars

\* A get one millisecond past the ttl of a value set with the shorter ttl
\* found the entry in the Map, returned null and removed it.
C21_Witness ==
    /\ ret # None
    /\ ret.op = "get"
    /\ ret.prior.some
    /\ ret.prior.entry.ttl = FilteredTtlMs
    /\ ret.at - ret.prior.entry.timestamp = FilteredTtlMs + 1
    /\ ret.value = None
    /\ ret.key \notin DOMAIN cache

(***************************************************************************)
(* C22: insertTransaction for a webhookId that has a row.                  *)
(***************************************************************************)
\* The step is a call of TransactionDatabase.insertTransaction.
InsertTransactionCalled == ret' # ret /\ ret'.op = "insertTransaction"

\* C22: a call of insertTransaction with a webhookId that already has a
\* row throws and leaves the transactions table as it was; with a webhookId
\* that has no row it returns the inserted row, which is the one row added
\* to the table.  The gateway makes no lookup of its own: the refusal is the
\* table's unique constraint on webhook_id.
C22_DuplicateInsertThrows ==
    [][InsertTransactionCalled =>
          IF RowsOf(ret'.arg.webhookId) # <<>>
          THEN /\ ret'.how = "thrown"
               /\ transactions' = transactions
          ELSE /\ ret'.how = "returned"
               /\ Len(transactions') = Len(transactions) + 1
               /\ SubSeq(transactions', 1, Len(transactions)) = transactions
               /\ transactions'[Len(transactions')].webhook_id = ret'.arg.webhookId
               /\ ret'.data.webhookId = ret'.arg.webhookId]_vars

\* insertTransaction has thrown for a webhookId that a POST request had
\* stored, and the table still holds exactly that one row of it.
C22_Witness ==
    /\ ret # None
    /\ ret.op = "insertTransaction"
    /\ ret.how = "thrown"
    /\ Len(RowsOf(ret.arg.webhookId)) = 1
    /\ \E r \in StoreReq :
          /\ Done(r) /\ req[r].resp.status = "processed"
          /\ WebhookIdOf(req[r]) = ret.arg.webhookId

(***************************************************************************)
(* C23: a missing setting.                                                 *)
(***************************************************************************)
\* One of the three settings is missing or empty.
SettingMissing ==
    \E name \in {"SUPABASE_URL", "SUPABASE_SERVICE_ROLE_KEY", "WEBHOOK_SECRET"} :
        env[name] = Absent \/ env[name] = ""

\* C23: when SUPABASE_URL, SUPABASE_SERVICE_ROLE_KEY or WEBHOOK_SECRET is
\* missing or empty, every answered request was answered 500 with status
\* "error" without its Authorization header having been read, no request
\* has made a storage call, and both tables are as they were.
C23_MissingSettingAnswered500 ==
    SettingMissing =>
        /\ \A r \in Req :
              /\ req[r].ops = <<>>
              /\ req[r].pc \in {"idle", "done"}
              /\ Done(r) => /\ req[r].resp.code = 500
                            /\ req[r].resp.status = "error"
                            /\ req[r].authHeader = Unread
        /\ transactions = <<>>
        /\ parse_errors = <<>>

\* The webhook secret is missing and every request has been answered.
C23_Witness ==
    /\ env.WEBHOOK_SECRET = Absent
    /\ \A r \in Req : Done(r) /\ req[r].resp.error = "Server configuration error"

(***************************************************************************)
(* C24-C29: the parser.                                                    *)
(***************************************************************************)
\* The parser has returned: its argument and its result.
Parsed == ret # None /\ ret.op = "parseBancolombiaSMS"

\* What a message says, read off its text without the parser: the digits of
\* its amount, its day, month, year, hour and minute.
AmountDigits(m) == SelectSeq(m.amount, LAMBDA c : c \in Digit)
DayOf(m) == DigitsValue(SubSeq(m.date, 1, 2))
MonthOf(m) == DigitsValue(SubSeq(m.date, 4, 5))
YearOf(m) == DigitsValue(SubSeq(m.date, 7, 10))
HourOf(m) == DigitsValue(SubSeq(m.time, 1, 2))
MinuteOf(m) == DigitsValue(SubSeq(m.time, 4, 5))

\* The amount has a digit other than zero.
AmountPositive(m) == \E i \in 1..Len(AmountDigits(m)) : AmountDigits(m)[i] # "0"

\* The sender name has a character that is not white space.
SenderNamed(m) == \E i \in 1..Len(m.sender) : m.sender[i] \notin {" ", "\t"}

\* (d, m, y) is a day of the Gregorian calendar.
GregorianLeap(y) == y % 400 = 0 \/ (y % 4 = 0 /\ y % 100 # 0)
RealDate(d, m, y) ==
    /\ m \in 1..12
    /\ d >= 1
    /\ d <= IF m = 2 THEN (IF GregorianLeap(y) THEN 29 ELSE 28)
            ELSE IF m \in {4, 6, 9, 11} THEN 30 ELSE 31

DateValid(m) == RealDate(DayOf(m), MonthOf(m), YearOf(m)) /\ YearOf(m) >= 1900
TimeValid(m) == HourOf(m) <= 23 /\ MinuteOf(m) <= 59

\* The reason of the first check that fails, in the order template, amount,
\* sender name, date, time; Absent when none fails.
FirstFailure(m) ==
    IF ~MatchesPattern(m) THEN PatternMismatchReason
    ELSE IF ~AmountPositive(m) THEN InvalidAmountReason
    ELSE IF ~SenderNamed(m) THEN EmptySenderReason
    ELSE IF ~DateValid(m) THEN InvalidDateReason
    ELSE IF ~TimeValid(m) THEN InvalidTimeReason
    ELSE Absent

\* C24: the parser's failure reason is that of the first failing check in
\* the order template match, amount, sender name, account suffix (which
\* cannot fail once the template matched), date, time; it succeeds exactly
\* when no check fails.
C24_FirstFailingCheckWins ==
    Parsed =>
        /\ ret.value.success <=> FirstFailure(ret.arg) = Absent
        /\ ret.value.errorReason = FirstFailure(ret.arg)

\* A template message with amount 0 and the date 29/02/2025 was refused for
\* its amount.
C24_Witness ==
    /\ Parsed
    /\ MatchesPattern(ret.arg)
    /\ ret.arg.amount = <<"0">>
    /\ ret.arg.date = DateText(29, 2, 2025)
    /\ ret.value.errorReason = InvalidAmountReason

\* The message is in the template and its amount and sender name are valid,
\* so that the parser gets to the date.
DateReached(m) == MatchesPattern(m) /\ AmountPositive(m) /\ SenderNamed(m)

\* C25: for a template message whose earlier fields are valid, the parser
\* refuses the date, with the invalid-date reason, exactly when (day, month,
\* year) is not a day of the calendar or the year is before 1900; and the
\* date of a successful result has the day, month and year of the message.
C25_DateAcceptedIffReal ==
    Parsed /\ DateReached(ret.arg) =>
        /\ ret.value.errorReason = InvalidDateReason <=> ~DateValid(ret.arg)
        /\ ret.value.success =>
              ret.value.date = [y |-> YearOf(ret.arg), m |-> MonthOf(ret.arg),
                                d |-> DayOf(ret.arg)]

\* 29/02/2024 was parsed to the 29th of February 2024.
C25_Witness ==
    /\ Parsed
    /\ ret.arg.date = DateText(29, 2, 2024)
    /\ ret.value.success
    /\ ret.value.date = [y |-> 2024, m |-> 2, d |-> 29]

\* HH:MM with the hour in 0..23 and the minute in 0..59.
IsClockTime(time) ==
    /\ Len(time) = 5
    /\ time[3] = ":"
    /\ \A i \in {1, 2, 4, 5} : time[i] \in Digit
    /\ DigitsValue(SubSeq(time, 1, 2)) \in 0..23
    /\ DigitsValue(SubSeq(time, 4, 5)) \in 0..59

\* A name with a first and a last character, neither of them white space.
IsTrimmedName(name) ==
    /\ name # <<>>
    /\ name[1] \notin {" ", "\t"}
    /\ name[Len(name)] \notin {" ", "\t"}

FiveReasons ==
    {"SMS message does not match Bancolombia transfer pattern",
     "Invalid amount format in SMS",
     "Empty or invalid sender name",
     "Invalid date format in SMS",
     "Invalid time values in SMS"}

\* C27: the parser returns a result for every message (it never raises),
\* and a failed result carries one of the five reasons; the other reasons in
\* the function's text (invalid account number format, invalid time format,
\* parsing error) are returned for no message.
C27_OneOfFiveReasons ==
    Parsed =>
        /\ ret.value.success \in BOOLEAN
        /\ ~ret.value.success => ret.value.errorReason \in FiveReasons
        /\ ret.value.success => ret.value.errorReason = Absent

\* A template message with an account of three digits was refused as not
\* matching the pattern.
C27_Witness ==
    /\ Parsed
    /\ ret.arg.lit
    /\ Len(ret.arg.account) = 3
    /\ ret.arg.amount = <<"5", "0", "0">>
    /\ ret.arg.sender = <<"A">>
    /\ ret.arg.date = DateText(1, 1, 2025)
    /\ ret.arg.time = TimeText(8, 6)
    /\ ret.value.errorReason = PatternMismatchReason

ParsedAgain == Parsed /\ ret.from # None

ValidatorReturned == ret # None /\ ret.op = "validateWebhookPayload"

\* The payload has the key, with a string as its value.
HasString(payload, key) == key \in DOMAIN payload.f /\ payload.f[key].t = "string"

\* C30: validateWebhookPayload accepts exactly the non-null objects whose
\* message, timestamp, phone and webhookId are strings and whose message and
\* webhookId are not empty; timestamp and phone may be empty.
C30_AcceptsExactlyWellTypedPayloads ==
    ValidatorReturned =>
        (ret.value <=>
            /\ ret.arg.t = "object"
            /\ \A key \in PayloadKeys : HasString(ret.arg, key)
            /\ ret.arg.f.message.s # ""
            /\ ret.arg.f.webhookId.s # "")

\* A payload with empty timestamp and phone was accepted.
C30_Witness ==
    /\ ValidatorReturned
    /\ ret.value
    /\ ret.arg.f.timestamp.s = ""
    /\ ret.arg.f.phone.s = ""

(***************************************************************************)
(* C31                                                                     *)
(***************************************************************************)
\* The rows, or the transactions of the store's list, with status
\* "processed".
ProcessedOnly(list) == SelectSeq(list, LAMBDA t : t.status = "processed")

\* averageAmount is totalAmount / transactionCount, and 0 for no transaction.
AverageIsQuotient(m) ==
    IF m.transactionCount > 0
    THEN /\ m.averageAmount.den = m.transactionCount
         /\ m.averageAmount.num = m.totalAmount
    ELSE m.averageAmount.num = 0 /\ m.totalAmount = 0

\* An aggregate read from the database has just been computed from the table.
MetricsComputed ==
    /\ ret # None
    /\ ret.op = "getDetailedMetrics"
    /\ ret.how = "returned"
    /\ ret.source = "storage"

\* C31: the period aggregates count processed transactions only.  An
\* aggregate getDetailedMetrics computes from the table is the one it would
\* compute from the table's processed rows alone, and the aggregates the
\* store calculates from its list are those of the list's processed
\* transactions alone: rows that are failed or duplicate add nothing to
\* totalAmount or transactionCount.  In both, averageAmount is totalAmount /
\* transactionCount when transactionCount > 0 and 0 when no transaction
\* matches.
C31_ProcessedOnlyAggregates ==
    /\ MetricsComputed =>
          /\ ret.data = DetailedMetrics(ProcessedOnly(transactions), ret.arg.period,
                                        ret.arg.range, tz, ret.data.lastUpdated)
          /\ ret.data.transactionCount <= Len(ProcessedOnly(transactions))
          /\ ret.data.totalAmount <= SumAmounts(ProcessedOnly(transactions))
          /\ AverageIsQuotient(ret.data)
    /\ store.metrics # None =>
          \A p \in Periods :
              /\ store.metrics[p] =
                    calculatePeriodMetrics(ProcessedOnly(store.transactions), p,
                                           DateAt(store.metrics[p].lastUpdated, tz), tz,
                                           store.metrics[p].lastUpdated)
              /\ store.metrics[p].transactionCount <= Len(ProcessedOnly(store.transactions))
              /\ store.metrics[p].totalAmount <= SumAmounts(ProcessedOnly(store.transactions))
              /\ AverageIsQuotient(store.metrics[p])

\* Witness: the table holds a processed, a failed or duplicate row dated
\* today; the daily aggregate read from the database counts one transaction
\* with the processed row's amount, and so does the store's, whose list
\* holds both.
C31_Witness ==
    /\ MetricsComputed
    /\ ret.arg.period = "daily"
    /\ Len(transactions) = 2
    /\ \E i, j \in 1..2 : /\ transactions[i].status = "processed"
                          /\ transactions[j].status \in {"failed", "duplicate"}
                          /\ ret.data.totalAmount = transactions[i].amount
    /\ ret.data.transactionCount = 1
    /\ store.metrics # None
    /\ Len(store.transactions) = 2
    /\ store.metrics["daily"].transactionCount = 1
    /\ store.metrics["daily"].averageAmount = ret.data.averageAmount

(***************************************************************************)
(* C32                                                                     *)
(***************************************************************************)
\* The processed rows dated inside the calendar window of a period that
\* contains the date ref: that day, its Monday to Sunday, its month.
InWindow(rows, period, ref) ==
    SelectSeq(rows, LAMBDA t :
        /\ t.status = "processed"
        /\ DateLE(PeriodWindow(period, ref).periodStart, t.transaction_date)
        /\ DateLE(t.transaction_date, PeriodWindow(period, ref).periodEnd))

\* C32: an aggregate getDetailedMetrics computes from the table counts and
\* sums exactly the processed transactions dated inside the calendar window
\* of its period around the reference date; no transaction dated on the day
\* after the window's last day, or on any other day outside it, is included.
C32_WindowOnly ==
    MetricsComputed =>
        LET inside == InWindow(transactions, ret.arg.period,
                               DateAt(ret.data.lastUpdated, tz))
        IN /\ ret.data.transactionCount = Len(inside)
           /\ ret.data.totalAmount = SumAmounts(inside)

(***************************************************************************)
(* C33                                                                     *)
(***************************************************************************)
\* No other delivery received so far carries the delivery id of r.
OwnWebhookId(r) ==
    \A s \in Req \ {r} : Validated(s) => WebhookIdOf(req[s]) # WebhookIdOf(req[r])

\* r was answered "processed" with the id of the one row of its delivery id,
\* after a lookup that found nothing and one insert.
ProcessedOwnRow(r) ==
    /\ req[r].resp.code = 200
    /\ req[r].resp.status = "processed"
    /\ Len(RowsOf(WebhookIdOf(req[r]))) = 1
    /\ req[r].resp.transactionId = RowsOf(WebhookIdOf(req[r]))[1].id
    /\ req[r].ops = <<LookupNotFound, Op("transactions", "insert", "ok")>>

\* C33: a delivery with a parseable message whose storage calls were all
\* served, and whose delivery id no other request carries, is answered
\* "processed" and has its own transactions row, whatever the other requests
\* are, however far they have got, and whether or not their storage calls
\* failed.
C33_DistinctDeliveriesIndependent ==
    \A r \in Req :
        (Done(r) /\ Validated(r) /\ Parseable(r) /\ StorageHealthy(r) /\ OwnWebhookId(r))
            => ProcessedOwnRow(r)

\* Witness: two deliveries with different delivery ids, both answered
\* "processed", the one received as request 1 with the row inserted second:
\* their storage calls were interleaved.
C33_Witness ==
    /\ \A r \in {1, 2} : Done(r) /\ Validated(r) /\ Parseable(r) /\ ProcessedOwnRow(r)
    /\ WebhookIdOf(req[1]) # WebhookIdOf(req[2])
    /\ Len(transactions) = 2
    /\ req[1].resp.transactionId # req[2].resp.transactionId

(***************************************************************************)
(* C34: cleanup, delete and clear.                                         *)
(***************************************************************************)
\* Every entry the Map holds afterwards is an entry it held, unchanged.
EntriesKept == \A k \in DOMAIN cache' : k \in DOMAIN cache /\ cache'[k] = cache[k]

\* C34: cleanup removes exactly the entries whose age exceeds their ttl at
\* the instant of the sweep, delete(key) removes exactly that key, clear()
\* removes every key; each leaves every entry it keeps (value, insertion
\* time, ttl) as it was.
C34_SweepFrame ==
    [][/\ CacheCalled("cleanup") =>
             /\ DOMAIN cache' = {k \in DOMAIN cache : Live(cache, k, clock)}
             /\ EntriesKept
       /\ CacheCalled("delete") =>
             /\ DOMAIN cache' = DOMAIN cache \ {ret'.key}
             /\ EntriesKept
       /\ CacheCalled("clear") => DOMAIN cache' = {}
      ]_vars

\* Witness: a sweep at the instant 300000 found two entries set at 0, one
\* with the ttl 60000 and one with the ttl 300000; it removed the first and
\* kept the second, whose age equals its ttl.
C34_Witness ==
    /\ ret # None
    /\ ret.op = "cleanup"
    /\ ret.at = ListTtlMs
    /\ DOMAIN ret.prior.entry = CacheKeyNames
    /\ \E gone \in CacheKeyNames \ DOMAIN cache :
          /\ ret.prior.entry[gone].ttl = FilteredTtlMs
          /\ ret.prior.entry[gone].timestamp = 0
    /\ \E kept \in DOMAIN cache :
          /\ cache[kept] = ret.prior.entry[kept]
          /\ cache[kept].ttl = ListTtlMs
          /\ cache[kept].timestamp = 0

(***************************************************************************)
(* C35                                                                     *)
(***************************************************************************)
\* A request of the delivery has been answered 200, "processed" or
\* "duplicate", and the table holds exactly one row of its webhookId.
Delivered ==
    \E r \in Req :
        /\ Done(r)
        /\ req[r].resp.code = 200
        /\ req[r].resp.status \in {"processed", "duplicate"}
        /\ Len(RowsOf(WebhookIdOf(req[r]))) = 1

\* The step answers request r with a 500.
Answered500(r) == ~Done(r) /\ req'[r].pc = "done" /\ req'[r].resp.code = 500

\* C35: when the gateway retries the delivery after each answer that is not
\* a 2xx and storage stops failing, the delivery is eventually answered 200
\* ("processed" or "duplicate") with exactly one transactions row of its
\* webhookId; and whenever a request is answered 500, the table holds no row
\* of its webhookId.
C35_RetryEventuallyStored ==
    /\ (Validated(1) /\ Parseable(1)) ~> Delivered
    /\ [][\A r \in Req :
            Answered500(r) =>
                SelectByWebhookId(transactions', WebhookIdOf(req'[r])) = <<>>]_vars

\* Witness: the first request was answered 500 after its insert failed, the
\* retry was answered "processed", and the table holds the one row.
C35_Witness ==
    /\ Validated(1) /\ Parseable(1)
    /\ Done(1) /\ req[1].resp.code = 500
    /\ Made(1, Op("transactions", "insert", "error"))
    /\ Done(2) /\ req[2].resp.code = 200 /\ req[2].resp.status = "processed"
    /\ Len(transactions) = 1
    /\ transactions[1].id = req[2].resp.transactionId

(***************************************************************************)
(* C36                                                                     *)
(***************************************************************************)
\* The message of a parse_errors row parses.
RowParses(row) == parseBancolombiaSMS(row.raw_message).success

InsertFailureReasons ==
    {"Database insert failed: " \o m :
        m \in {"Database connection failed",
               "duplicate key value violates unique constraint"}}

\* Request r recorded the row: it delivered the row's webhookId and message,
\* its insert into transactions returned an error, and it is not answered
\* otherwise than with a 500.
RecordedInsertFailure(r, row) ==
    /\ Delivers(r, row.webhook_id)
    /\ MessageOf(req[r]) = row.raw_message
    /\ \/ Made(r, Op("transactions", "insert", "error"))
       \/ Made(r, Op("transactions", "insert", "unique violation"))
    /\ Done(r) => req[r].resp.code = 500

ParseErrorsOf(w) == SelectSeq(parse_errors, LAMBDA e : e.webhook_id = w)

\* Every delivery of w received so far carries one and the same message,
\* which does not parse.
ReplayedUnparseable(w) ==
    \A r, s \in Req :
        (Delivers(r, w) /\ Delivers(s, w)) =>
            /\ req[r].body = req[s].body
            /\ ~Parseable(r)

\* C37: however often a delivery whose message does not parse is replayed
\* with the same webhookId, one after the other or concurrently, parse_errors
\* holds at most one row of that webhookId.
C37_AtMostOneParseError ==
    \A w \in WebhookIds : ReplayedUnparseable(w) => Len(ParseErrorsOf(w)) <= 1

(***************************************************************************)
(* C38                                                                     *)
(***************************************************************************)
\* The calendar date written in a message.
DateWritten(m) == [y |-> YearOf(m), m |-> MonthOf(m), d |-> DayOf(m)]

\* C38: on a host of any UTC offset, the transaction_date of a row the POST
\* handler stored is the day, month and year written in the row's message:
\* the conversion of the parser's local-midnight date to the stored date
\* string moves it neither to the previous nor to the next day.
C38_StoredDateIsWrittenDate ==
    \A i \in 1..Len(transactions) :
        transactions[i].transaction_date = DateWritten(transactions[i].raw_message)

(***************************************************************************)
(* C39                                                                     *)
(***************************************************************************)
\* C39: however the results of fetchTransactions and the realtime INSERT
\* callbacks interleave, the store's transactions list never holds two
\* entries with the same transaction id, so that calculateMetrics counts no
\* stored transaction twice.
C39_NoDuplicateInList ==
    \A i, j \in 1..Len(store.transactions) :
        store.transactions[i].id = store.transactions[j].id => i = j

====
